---- MODULE Spec2Model ----
(***************************************************************************)
(* Recipe backend: the in-memory repository (MockedRecipesRepository), the *)
(* relational repository (DatabaseRecipesRepository) and the service       *)
(* (RecipesService) that sits on top of either of them.                    *)
(*                                                                         *)
(* Python values are modelled as follows.                                  *)
(*   dict            a function from key strings to values                 *)
(*   list            a sequence                                            *)
(*   Optional[x]     the empty set (None) or the singleton {x}             *)
(*   searchable text a sequence of one-character strings, so that          *)
(*                   str.lower() and the substring test `in` are computed  *)
(*   ISO timestamp   [t |-> instant, sfx |-> "Z" | "+00:00" | ""]          *)
(***************************************************************************)
EXTENDS Integers, Sequences, FiniteSets, TLC

VARIABLES
    backend,    \* "mock" or "db": the repository the service was built with
    recipes,    \* db.mocked.recipes.mock_recipes, the list MockedRecipesRepository._recipes refers to
    db,         \* the relational store: one sequence of rows per table
    now,        \* django.utils.timezone.now(), as a counter
    nOps,       \* number of calls counted against the bound
    last,       \* the last repository or service call: its name, arguments and result
    mem,        \* mock_recipes as objects, and the references a caller holds
    proc,       \* the process: the repository instances built in it and its threads
    files       \* the directory db_backups: the copies of the database file

vars == <<backend, recipes, db, now, nOps, last, mem, proc, files>>

(***************************************************************************)
(* Bounds.                                                                 *)
(***************************************************************************)
MaxOps == 3
MaxCalls == 3

----------------------------------------------------------------------------
(***************************************************************************)
(* Python primitives.                                                      *)
(***************************************************************************)
None == {}
Some(v) == {v}
The(o) == CHOOSE v \in o : TRUE

Min(a, b) == IF a < b THEN a ELSE b
Max(a, b) == IF a > b THEN a ELSE b

\* dict.get(k, default)
Get(d, k, default) == IF k \in DOMAIN d THEN d[k] ELSE default

\* bool(x) of an Optional[str]: None and the empty string are falsy
\* (identifiers are TLA+ strings, searchable text is a sequence of characters)
TruthyStr(o) == o # None /\ The(o) # ""
TruthyText(o) == o # None /\ The(o) # <<>>

\* str.lower() on the characters the model uses
LowerChar(c) ==
    CASE c = "A" -> "a"
      [] c = "B" -> "b"
      [] OTHER -> c

lower(s) == [i \in 1..Len(s) |-> LowerChar(s[i])]

\* the substring test `q in s`
Contains(q, s) ==
    \E i \in 0..(Len(s) - Len(q)) : SubSeq(s, i + 1, i + Len(q)) = q

\* xs[a:b] for a list xs, negative indices counted from the end
PySlice(xs, a, b) ==
    LET n  == Len(xs)
        lo == IF a < 0 THEN Max(a + n, 0) ELSE Min(a, n)
        hi == IF b < 0 THEN Max(b + n, 0) ELSE Min(b, n)
    IN  IF lo >= hi THEN <<>> ELSE SubSeq(xs, lo + 1, hi)

\* a // b
PyFloorDiv(a, b) == IF b > 0 THEN a \div b ELSE (0 - a) \div (0 - b)

\* dict.update(other)
DictUpdate(d, other) ==
    [k \in (DOMAIN d) \cup (DOMAIN other) |->
        IF k \in DOMAIN other THEN other[k] ELSE d[k]]

\* d[k] = v
DictPut(d, k, v) == [x \in (DOMAIN d) \cup {k} |-> IF x = k THEN v ELSE d[x]]

Range(s) == {s[i] : i \in 1..Len(s)}

RECURSIVE Concat(_)
Concat(ss) == IF ss = <<>> THEN <<>> ELSE Head(ss) \o Concat(Tail(ss))

\* the first of the indices in hits (a loop that returns at its first match), or 0
FirstIndex(hits) ==
    IF hits = {} THEN 0 ELSE CHOOSE i \in hits : \A j \in hits : i <= j

RemoveAt(xs, i) == SubSeq(xs, 1, i - 1) \o SubSeq(xs, i + 1, Len(xs))

----------------------------------------------------------------------------
(***************************************************************************)
(* Data: the seed list and the requests the callers make.                  *)
(***************************************************************************)
Ts(t, sfx) == [t |-> t, sfx |-> sfx]

Ingredient(id, name) == [id |-> id, name |-> name, amount |-> "1", unit |-> "g"]
Step(id, instructions, ings) ==
    [id |-> id, instructions |-> instructions, ingredients |-> ings]

Recipe(id, userId, title, description, ingredients, steps, tags, createdAt, updatedAt) ==
    [id |-> id, userId |-> userId, title |-> title, description |-> description,
     prepTime |-> 15, cookTime |-> 20, servings |-> 4, imageUrl |-> "http://img",
     ingredients |-> ingredients, steps |-> steps, tags |-> tags,
     createdAt |-> createdAt, updatedAt |-> updatedAt]

\* three seed recipes, ids "1".."3", all owned by user "1"; the first matches the
\* query "ab" through its title, the second through its description, the third
\* only through a tag
mock_recipes ==
    << Recipe("1", "1", <<"x", "A", "b">>, <<"x">>,
              <<Ingredient("1-1", "Spaghetti"), Ingredient("1-2", "Salt")>>,
              <<Step("1-1", "Boil", <<"1-1", "1-2">>)>>,
              << <<"x">>, <<"B">> >>, Ts(2, "Z"), Ts(2, "Z")),
       Recipe("2", "1", <<"x">>, <<"a", "B", "x">>,
              <<Ingredient("2-1", "Bread")>>,
              <<Step("2-1", "Toast", <<"2-1">>)>>,
              << >>, Ts(3, "Z"), Ts(3, "Z")),
       Recipe("3", "1", <<"x">>, <<"x">>,
              << >>, << >>,
              << <<"x">>, <<"A", "B">> >>, Ts(1, "Z"), Ts(1, "Z")) >>

\* recipe dicts handed to create()
NewA ==
    Recipe("4", "2", <<"b", "a">>, <<"x">>,
           <<Ingredient("a", "Egg")>>,
           <<Step("s", "Mix", <<"a">>)>>,
           << <<"x">> >>, Ts(5, "Z"), Ts(5, "Z"))

\* reuses the id of a seed recipe, has two ingredients and two steps, names one
\* tag twice and leaves the timestamps out
NewB ==
    [id |-> "1", userId |-> "2", title |-> <<"A", "B">>, description |-> <<"x">>,
     prepTime |-> 5, cookTime |-> 0, servings |-> 1, imageUrl |-> "http://img",
     ingredients |-> <<Ingredient("a", "Egg"), Ingredient("b", "Oil")>>,
     steps |-> <<Step("s", "Mix", <<"a", "b">>), Step("t", "Fry", <<"b">>)>>,
     tags |-> << <<"B">>, <<"A">>, <<"B">> >>]

CreateInputs == {NewA, NewB}

\* a recipe without the optional imageUrl
NoImage ==
    [id |-> "5", userId |-> "2", title |-> <<"b">>, description |-> <<"x">>,
     prepTime |-> 5, cookTime |-> 0, servings |-> 1,
     ingredients |-> << >>, steps |-> << >>, tags |-> << <<"x">> >>,
     createdAt |-> Ts(5, "Z"), updatedAt |-> Ts(5, "Z")]

\* partial dicts handed to update()
P_title == [title |-> <<"a", "b">>]
\* names one tag twice
P_tags  == [tags |-> << <<"B">>, <<"x">>, <<"B">> >>, updatedAt |-> Ts(6, "Z")]
P_ings  == [ingredients |-> <<Ingredient("n", "Nut")>>]

\* steps only, the step naming an ingredient of the first seed recipe
P_steps == [steps |-> <<Step("s2", "Stir", <<"1-1">>)>>]

UpdateInputs == {P_title, P_tags, P_ings, P_steps}

\* ids handed to get_by_id(), update() and delete()
Ids == {"", "1", "2", "4"}

\* ids no stored recipe has: numeric with a leading zero, and not numeric
LookupIds == Ids \cup {"01", "x"}

\* arguments of get_list(); a caller lists page 1, then the following pages
Owners   == {None, Some(""), Some("2")}
Searches == {None, Some(<< >>), Some(<<"a", "b">>), Some(<<"A", "B">>)}
Sizes    == 1..3

\* arguments of RecipesService.get_list()
ServicePages  == 1..4
ServiceOwners == {None, Some("2")}

----------------------------------------------------------------------------
(***************************************************************************)
(* MockedRecipesRepository.  copy.deepcopy of a value is the value.        *)
(***************************************************************************)
\* lines 33-38: the owner filter
Mocked_filter_user(rs, user_id) ==
    IF TruthyStr(user_id)
    THEN SelectSeq(rs, LAMBDA r : "userId" \in DOMAIN r /\ r.userId = The(user_id))
    ELSE rs

\* (mutant) the search looks at the title and the description only
Mocked_search_match_no_tags(recipe, query_lower) ==
    \/ Contains(query_lower, lower(Get(recipe, "title", << >>)))
    \/ Contains(query_lower, lower(Get(recipe, "description", << >>)))

\* lines 45-60: one recipe against the lower-cased query
Mocked_search_match(recipe, query_lower) ==
    \/ Contains(query_lower, lower(Get(recipe, "title", << >>)))
    \/ Contains(query_lower, lower(Get(recipe, "description", << >>)))
    \/ LET tags == Get(recipe, "tags", << >>)
       IN  \E i \in 1..Len(tags) : Contains(query_lower, lower(tags[i]))

\* lines 40-62: the search filter
Mocked_filter_search(rs, search) ==
    IF TruthyText(search)
    THEN LET query_lower == lower(The(search))
         IN  SelectSeq(rs, LAMBDA r : Mocked_search_match(r, query_lower))
    ELSE rs

Mocked_filtered(rs, user_id, search) ==
    Mocked_filter_search(Mocked_filter_user(rs, user_id), search)

\* (mutant) the page number taken as 0-based
Paginate_zero_based(filtered, page, page_size) ==
    PySlice(filtered, page * page_size, page * page_size + page_size)

\* lines 67-70: the slice of one page
Paginate(filtered, page, page_size) ==
    LET start_index == (page - 1) * page_size
        end_index   == start_index + page_size
    IN  PySlice(filtered, start_index, end_index)

\* (mutant) the total counted after the slice
Mocked_get_list_total_of_page(rs, user_id, search, page, page_size) ==
    LET items == Paginate(Mocked_filtered(rs, user_id, search), page, page_size)
    IN  [items |-> items, total |-> Len(items)]

Mocked_get_list(rs, user_id, search, page, page_size) ==
    LET filtered_recipes == Mocked_filtered(rs, user_id, search)
        total == Len(filtered_recipes)
    IN  [items |-> Paginate(filtered_recipes, page, page_size), total |-> total]

Mocked_index(rs, recipe_id) ==
    FirstIndex({i \in 1..Len(rs) : "id" \in DOMAIN rs[i] /\ rs[i].id = recipe_id})

Mocked_get_by_id(rs, recipe_id) ==
    LET i == Mocked_index(rs, recipe_id)
    IN  IF i = 0 THEN None ELSE Some(rs[i])

\* create: [store |-> the list afterwards, ret |-> the returned copy]
Mocked_create(rs, recipe) ==
    [store |-> Append(rs, recipe), ret |-> recipe]

\* (mutant) update of an id that is not stored adds the payload as a recipe
Mocked_update_upsert(rs, recipe_id, recipe_data) ==
    LET i == Mocked_index(rs, recipe_id)
    IN  IF i = 0
        THEN [store |-> Append(rs, recipe_data), ret |-> Some(recipe_data)]
        ELSE LET updated_recipe == DictUpdate(rs[i], recipe_data)
             IN  [store |-> [rs EXCEPT ![i] = updated_recipe],
                  ret |-> Some(updated_recipe)]

Mocked_update(rs, recipe_id, recipe_data) ==
    LET i == Mocked_index(rs, recipe_id)
    IN  IF i = 0
        THEN [store |-> rs, ret |-> None]
        ELSE LET updated_recipe == DictUpdate(rs[i], recipe_data)
             IN  [store |-> [rs EXCEPT ![i] = updated_recipe],
                  ret |-> Some(updated_recipe)]

\* (mutant) delete removes every recipe with the id
Mocked_delete_all_matching(rs, recipe_id) ==
    LET i == Mocked_index(rs, recipe_id)
    IN  IF i = 0
        THEN [store |-> rs, ret |-> FALSE]
        ELSE [store |-> SelectSeq(rs, LAMBDA r : ~("id" \in DOMAIN r /\ r.id = recipe_id)),
              ret |-> TRUE]

Mocked_delete(rs, recipe_id) ==
    LET i == Mocked_index(rs, recipe_id)
    IN  IF i = 0
        THEN [store |-> rs, ret |-> FALSE]
        ELSE [store |-> RemoveAt(rs, i), ret |-> TRUE]

----------------------------------------------------------------------------
(***************************************************************************)
(* MockedRecipesRepository in one process.  An instance holds a reference  *)
(* to a list: ModuleList is the module-level list mock_recipes (the        *)
(* variable recipes), k >= 1 is the k-th list some instance built for      *)
(* itself.  A thread runs one call of update() or delete() statement by    *)
(* statement; nothing in the repository takes a lock.                      *)
(***************************************************************************)
ModuleList == 0

Threads == {1, 2}

\* a thread outside any call.  it is the position the list iterator of the
\* for loop reads next, i the position it found the recipe at, updated_recipe
\* the modified copy; read_at and wrote_at note how many writes the list had
\* seen when the thread found its recipe and when it wrote
IdleThread ==
    [pc |-> "idle", op |-> "none", recipe_id |-> "", recipe_data |-> << >>,
     it |-> 0, i |-> 0, recipe |-> None, updated_recipe |-> None,
     ret |-> None, exc |-> None, read_at |-> 0, wrote_at |-> 0]

Process(instances, own, threads, writes) ==
    [instances |-> instances, own |-> own, threads |-> threads, writes |-> writes]

\* (mutant) __init__ gives the instance a deep copy of mock_recipes
Mocked_init_own_copy(p, module_list) ==
    [p EXCEPT !.own = Append(@, module_list),
              !.instances = Append(@, Len(p.own) + 1)]

\* lines 13-17: self._recipes = mock_recipes
Mocked_init(p, module_list) ==
    [p EXCEPT !.instances = Append(@, ModuleList)]

\* the process after the first repository was built
InitialProcess ==
    Mocked_init(Process(<< >>, << >>, [t \in Threads |-> IdleThread], 0), mock_recipes)

\* self._recipes of an instance, and the assignment of a new value to that list
StoreOf(p, module_list, inst) ==
    IF p.instances[inst] = ModuleList THEN module_list ELSE p.own[p.instances[inst]]

ModuleListAfter(p, module_list, inst, store) ==
    IF p.instances[inst] = ModuleList THEN store ELSE module_list

OwnAfter(p, inst, store) ==
    IF p.instances[inst] = ModuleList THEN p.own
    ELSE [p.own EXCEPT ![p.instances[inst]] = store]

\* update() line 103 / delete() line 119: one round of
\* `for i, recipe in enumerate(self._recipes)` with the test of line 104 / 120,
\* and for update the copy and dict.update of lines 106-108, which touch
\* nothing but the thread's own objects
Thread_scan(th, rs, writes) ==
    IF th.it > Len(rs)
    THEN [th EXCEPT !.pc = "done",
                    !.ret = IF th.op = "update" THEN None ELSE Some(FALSE)]
    ELSE IF ~("id" \in DOMAIN rs[th.it] /\ rs[th.it].id = th.recipe_id)
    THEN [th EXCEPT !.it = @ + 1]
    ELSE [th EXCEPT !.pc = IF th.op = "update" THEN "write" ELSE "del",
                    !.i = th.it,
                    !.recipe = Some(rs[th.it]),
                    !.updated_recipe = IF th.op = "update"
                                       THEN Some(DictUpdate(rs[th.it], th.recipe_data))
                                       ELSE None,
                    !.read_at = writes]

\* (mutant) the write applies recipe_data to the record the list holds now
Thread_write_merges_current(th, rs) ==
    IF th.i > Len(rs) THEN rs
    ELSE [rs EXCEPT ![th.i] = DictUpdate(@, th.recipe_data)]

\* update() line 110: self._recipes[i] = updated_recipe
Thread_write(th, rs) ==
    IF th.i > Len(rs) THEN rs
    ELSE [rs EXCEPT ![th.i] = The(th.updated_recipe)]

\* delete() line 121: del self._recipes[i]
Thread_del(th, rs) ==
    IF th.i > Len(rs) THEN rs ELSE RemoveAt(rs, th.i)

\* the thread after the statement: an index past the end raises IndexError
Thread_after(th, rs, writes) ==
    IF th.i > Len(rs)
    THEN [th EXCEPT !.pc = "done", !.exc = Some("IndexError")]
    ELSE [th EXCEPT !.pc = "done", !.wrote_at = writes + 1,
                    !.ret = IF th.op = "update" THEN th.updated_recipe ELSE Some(TRUE)]

----------------------------------------------------------------------------
(***************************************************************************)
(* MockedRecipesRepository on the level of objects.  A dict and a list are *)
(* objects with an identity: the heap is the sequence of the objects made  *)
(* so far, an address is an index into it.  A recipe dict refers to its    *)
(* ingredients, steps and tags lists; the ingredients and steps lists      *)
(* refer to one dict per element; a step dict refers to the list of its    *)
(* ingredient ids.  Strings, numbers and timestamps are immutable values.  *)
(* No object of the model is reachable twice from one root, so the memo of *)
(* copy.deepcopy never hits.                                               *)
(***************************************************************************)
NoKeys == << >>

DictObj(prim, refs) == [kind |-> "dict", prim |-> prim, refs |-> refs, items |-> << >>]
RefsObj(items) == [kind |-> "refs", prim |-> NoKeys, refs |-> NoKeys, items |-> items]
ValsObj(items) == [kind |-> "vals", prim |-> NoKeys, refs |-> NoKeys, items |-> items]

\* the keys under which a dict holds a list, in the order the dicts list them
KeySeq == <<"ingredients", "steps", "tags">>

\* what the list under key k of dict d holds: dicts ("refs") or values ("vals")
NestedKind(d, k) ==
    CASE k = "tags" -> "vals"
      [] k = "steps" -> "refs"
      [] k = "ingredients" -> IF "instructions" \in DOMAIN d THEN "vals" ELSE "refs"
      [] OTHER -> "none"

NestedKeys(d) == SelectSeq(KeySeq, LAMBDA k : k \in DOMAIN d)

\* a dict literal evaluated by the caller: [heap, addr]
RECURSIVE New(_, _), NewFields(_, _, _, _), NewItems(_, _, _)
New(h, d) ==
    LET r == NewFields(h, d, NestedKeys(d), NoKeys)
        prim == [k \in (DOMAIN d) \ Range(NestedKeys(d)) |-> d[k]]
    IN  [heap |-> Append(r.heap, DictObj(prim, r.refs)), addr |-> Len(r.heap) + 1]

NewFields(h, d, keys, refs) ==
    IF keys = << >>
    THEN [heap |-> h, refs |-> refs]
    ELSE LET k == Head(keys)
             c == IF NestedKind(d, k) = "vals"
                  THEN [heap |-> Append(h, ValsObj(d[k])), addr |-> Len(h) + 1]
                  ELSE LET r == NewItems(h, d[k], << >>)
                       IN  [heap |-> Append(r.heap, RefsObj(r.addrs)),
                            addr |-> Len(r.heap) + 1]
         IN  NewFields(c.heap, d, Tail(keys), DictPut(refs, k, c.addr))

NewItems(h, ds, addrs) ==
    IF ds = << >>
    THEN [heap |-> h, addrs |-> addrs]
    ELSE LET c == New(h, Head(ds))
         IN  NewItems(c.heap, Tail(ds), Append(addrs, c.addr))

\* the value of the object at address a, nested objects included
RECURSIVE DeepValue(_, _)
DeepValue(h, a) ==
    LET o == h[a]
    IN  CASE o.kind = "vals" -> o.items
          [] o.kind = "refs" -> [i \in 1..Len(o.items) |-> DeepValue(h, o.items[i])]
          [] o.kind = "dict" ->
                [k \in (DOMAIN o.prim) \cup (DOMAIN o.refs) |->
                    IF k \in DOMAIN o.refs THEN DeepValue(h, o.refs[k]) ELSE o.prim[k]]

\* the addresses reachable from address a
RECURSIVE Reach(_, _)
Reach(h, a) ==
    LET o == h[a]
        children == IF o.kind = "dict" THEN {o.refs[k] : k \in DOMAIN o.refs}
                    ELSE IF o.kind = "refs" THEN Range(o.items)
                    ELSE {}
    IN  {a} \cup UNION {Reach(h, b) : b \in children}

\* copy.deepcopy(x): [heap, addr]
RECURSIVE DeepCopy(_, _), CopyFields(_, _, _, _), CopyItems(_, _, _)
DeepCopy(h, a) ==
    LET o == h[a]
    IN  CASE o.kind = "vals" -> [heap |-> Append(h, o), addr |-> Len(h) + 1]
          [] o.kind = "refs" ->
                LET r == CopyItems(h, o.items, << >>)
                IN  [heap |-> Append(r.heap, RefsObj(r.addrs)), addr |-> Len(r.heap) + 1]
          [] o.kind = "dict" ->
                LET r == CopyFields(h, o.refs, NestedKeys(o.refs), NoKeys)
                IN  [heap |-> Append(r.heap, DictObj(o.prim, r.refs)),
                     addr |-> Len(r.heap) + 1]

CopyFields(h, refs, keys, acc) ==
    IF keys = << >>
    THEN [heap |-> h, refs |-> acc]
    ELSE LET c == DeepCopy(h, refs[Head(keys)])
         IN  CopyFields(c.heap, refs, Tail(keys), DictPut(acc, Head(keys), c.addr))

CopyItems(h, items, addrs) ==
    IF items = << >>
    THEN [heap |-> h, addrs |-> addrs]
    ELSE LET c == DeepCopy(h, Head(items))
         IN  CopyItems(c.heap, Tail(items), Append(addrs, c.addr))

\* copy.copy(x) of a dict: a new dict that refers to the same lists
ShallowCopy(h, a) == [heap |-> Append(h, h[a]), addr |-> Len(h) + 1]

\* the memory: the heap, the items of the list mock_recipes (which
\* self._recipes refers to), and the two references the caller holds: the
\* result of its last get_list/get_by_id and the argument of its last
\* create/update
Memory(heap, store, got, sent) ==
    [heap |-> heap, store |-> store, got |-> got, sent |-> sent]

\* db/mocked/recipes.py: the module builds the seed list when it is imported
InitialMemory ==
    LET r == NewItems(<< >>, mock_recipes, << >>)
    IN  Memory(r.heap, r.addrs, None, None)

\* the stored recipes as values
StoreValue(m) == [i \in 1..Len(m.store) |-> DeepValue(m.heap, m.store[i])]

\* recipe.get('id') == recipe_id, first match
Heap_index(m, recipe_id) ==
    FirstIndex({i \in 1..Len(m.store) :
                    /\ "id" \in DOMAIN m.heap[m.store[i]].prim
                    /\ m.heap[m.store[i]].prim.id = recipe_id})

\* (mutant) get_by_id returns copy.copy of the stored dict
Heap_get_by_id_shallow(m, recipe_id) ==
    LET i == Heap_index(m, recipe_id)
    IN  IF i = 0
        THEN [mem |-> m, ret |-> None]
        ELSE LET c == ShallowCopy(m.heap, m.store[i])
             IN  [mem |-> [m EXCEPT !.heap = c.heap], ret |-> Some(c.addr)]

\* lines 75-84
Heap_get_by_id(m, recipe_id) ==
    LET i == Heap_index(m, recipe_id)
    IN  IF i = 0
        THEN [mem |-> m, ret |-> None]
        ELSE LET c == DeepCopy(m.heap, m.store[i])
             IN  [mem |-> [m EXCEPT !.heap = c.heap], ret |-> Some(c.addr)]

\* lines 19-73: the filters read the stored dicts, the page is a new list of
\* deep copies
Heap_get_list(m, user_id, search, page, page_size) ==
    LET by_user == IF TruthyStr(user_id)
                   THEN SelectSeq(m.store,
                            LAMBDA a : "userId" \in DOMAIN m.heap[a].prim
                                       /\ m.heap[a].prim.userId = The(user_id))
                   ELSE m.store
        filtered_recipes ==
            IF TruthyText(search)
            THEN SelectSeq(by_user,
                     LAMBDA a : Mocked_search_match(DeepValue(m.heap, a),
                                                    lower(The(search))))
            ELSE by_user
        total == Len(filtered_recipes)
        paginated_recipes == Paginate(filtered_recipes, page, page_size)
        r == CopyItems(m.heap, paginated_recipes, << >>)
    IN  [mem |-> [m EXCEPT !.heap = Append(r.heap, RefsObj(r.addrs))],
         ret |-> Some(Len(r.heap) + 1), total |-> total]

\* lines 86-96
Heap_create(m, recipe) ==
    LET new_recipe == DeepCopy(m.heap, recipe)
        c == DeepCopy(new_recipe.heap, new_recipe.addr)
    IN  [mem |-> [m EXCEPT !.heap = c.heap, !.store = Append(@, new_recipe.addr)],
         ret |-> Some(c.addr)]

\* lines 98-113: dict.update() binds each key of recipe_data to the object
\* recipe_data holds under it
Heap_update(m, recipe_id, recipe_data) ==
    LET i == Heap_index(m, recipe_id)
    IN  IF i = 0
        THEN [mem |-> m, ret |-> None]
        ELSE LET updated_recipe == DeepCopy(m.heap, m.store[i])
                 old == updated_recipe.heap[updated_recipe.addr]
                 data == m.heap[recipe_data]
                 h1 == [updated_recipe.heap EXCEPT ![updated_recipe.addr] =
                            DictObj(DictUpdate(old.prim, data.prim),
                                    DictUpdate(old.refs, data.refs))]
                 c == DeepCopy(h1, updated_recipe.addr)
             IN  [mem |-> [m EXCEPT !.heap = c.heap,
                                    !.store = [@ EXCEPT ![i] = updated_recipe.addr]],
                  ret |-> Some(c.addr)]

\* lines 115-123
Heap_delete(m, recipe_id) ==
    LET i == Heap_index(m, recipe_id)
    IN  IF i = 0
        THEN [mem |-> m, ret |-> FALSE]
        ELSE [mem |-> [m EXCEPT !.store = RemoveAt(@, i)], ret |-> TRUE]

\* what a caller does to an object it holds: d['title'] = 'z' on a recipe dict
\* (d['name'], d['instructions'] on an ingredient, a step), xs.pop() on a list
CallerWrites(h, a) ==
    LET o == h[a]
    IN  IF o.kind = "dict"
        THEN IF "name" \in DOMAIN o.prim
             THEN [h EXCEPT ![a].prim = DictPut(o.prim, "name", "z")]
             ELSE IF "instructions" \in DOMAIN o.prim
             THEN [h EXCEPT ![a].prim = DictPut(o.prim, "instructions", "z")]
             ELSE [h EXCEPT ![a].prim = DictPut(o.prim, "title", <<"z">>)]
        ELSE [h EXCEPT ![a].items = SubSeq(o.items, 1, Len(o.items) - 1)]

----------------------------------------------------------------------------
(***************************************************************************)
(* The relational store (apps/recipe/models.py) as Django and the database *)
(* treat it.  Recipe, Ingredient and Step declare id = CharField(          *)
(* primary_key=True): Model.objects.create() without an id inserts the     *)
(* field's default, the empty string, and the primary key rejects a second *)
(* row with the same id (IntegrityError).  Tag, RecipeTag and              *)
(* StepIngredient have surrogate keys nothing reads: the tag table is the  *)
(* sequence of its names, recipe_tag the sequence of its pairs, in         *)
(* insertion order, and step_ingredient the set of its pairs.  No call is  *)
(* wrapped in a transaction, so the writes made before an exception stay.  *)
(***************************************************************************)
EmptyDb ==
    [recipe |-> << >>, ingredient |-> << >>, step |-> << >>,
     step_ingredient |-> {}, tag |-> << >>, recipe_tag |-> << >>,
     \* django.contrib.auth's user table: username is unique, email is not
     auth_user |-> << >>]

HasPk(table, pk) == \E i \in 1..Len(table) : table[i].id = pk

\* str(int(recipe_id)) when recipe_id is numeric, recipe_id itself otherwise
\* (the ValueError branch); the CharField lookup compares the result as text
LookupKey(recipe_id) ==
    CASE recipe_id = "01" -> "1"
      [] OTHER -> recipe_id

\* datetime.fromisoformat(s.replace('Z', '+00:00')), made aware: the instant
ParseTs(ts) == ts.t

\* datetime.isoformat() of an aware datetime read back from the database
Isoformat(t) == Ts(t, "+00:00")

\* the code point of a character, for ORDER BY name
CharCode(c) ==
    CASE c = "A" -> 65
      [] c = "B" -> 66
      [] c = "a" -> 97
      [] c = "b" -> 98
      [] OTHER -> 120

RECURSIVE TextLess(_, _)
TextLess(s, t) ==
    IF t = << >> THEN FALSE
    ELSE IF s = << >> THEN TRUE
    ELSE IF CharCode(Head(s)) # CharCode(Head(t))
         THEN CharCode(Head(s)) < CharCode(Head(t))
         ELSE TextLess(Tail(s), Tail(t))

\* the texts in ascending order (Tag.Meta.ordering = ['name'])
RECURSIVE SortTexts(_)
SortTexts(texts) ==
    IF texts = << >> THEN << >>
    ELSE LET i == CHOOSE i \in 1..Len(texts) :
                    /\ \A j \in 1..Len(texts) : ~TextLess(texts[j], texts[i])
                    /\ \A j \in 1..(i - 1) : TextLess(texts[i], texts[j])
         IN  <<texts[i]>> \o SortTexts(RemoveAt(texts, i))

\* rows in descending createdAt (Recipe.Meta.ordering = ['-createdAt']); rows
\* with the same createdAt stay in table order
RECURSIVE SortNewestFirst(_)
SortNewestFirst(rows) ==
    IF rows = << >> THEN << >>
    ELSE LET i == CHOOSE i \in 1..Len(rows) :
                    /\ \A j \in 1..Len(rows) : rows[j].createdAt <= rows[i].createdAt
                    /\ \A j \in 1..(i - 1) : rows[j].createdAt < rows[i].createdAt
         IN  <<rows[i]>> \o SortNewestFirst(RemoveAt(rows, i))

\* rows in ascending order (Step.Meta.ordering = ['order', 'id']; the ids of
\* the rows of one recipe with the same order cannot differ: see HasPk)
RECURSIVE SortByOrder(_)
SortByOrder(rows) ==
    IF rows = << >> THEN << >>
    ELSE LET i == CHOOSE i \in 1..Len(rows) :
                    /\ \A j \in 1..Len(rows) : rows[i].order <= rows[j].order
                    /\ \A j \in 1..(i - 1) : rows[i].order < rows[j].order
         IN  <<rows[i]>> \o SortByOrder(RemoveAt(rows, i))

\* on_delete=CASCADE
DeleteIngredientsOf(d, rid) ==
    LET gone == {r.id : r \in {x \in Range(d.ingredient) : x.recipe = rid}}
    IN  [d EXCEPT !.ingredient = SelectSeq(d.ingredient, LAMBDA r : r.recipe # rid),
                  !.step_ingredient = {l \in d.step_ingredient : l[2] \notin gone}]

DeleteStepsOf(d, rid) ==
    LET gone == {r.id : r \in {x \in Range(d.step) : x.recipe = rid}}
    IN  [d EXCEPT !.step = SelectSeq(d.step, LAMBDA r : r.recipe # rid),
                  !.step_ingredient = {l \in d.step_ingredient : l[1] \notin gone}]

DeleteRecipeTagsOf(d, rid) ==
    [d EXCEPT !.recipe_tag = SelectSeq(d.recipe_tag, LAMBDA l : l[1] # rid)]

DeleteRecipeRow(d, rid) ==
    LET d1 == DeleteRecipeTagsOf(DeleteStepsOf(DeleteIngredientsOf(d, rid), rid), rid)
    IN  [d1 EXCEPT !.recipe = SelectSeq(d1.recipe, LAMBDA r : r.id # rid)]

Database_model_to_dict(d, recipe_model) ==
    LET ingredients ==
            [i \in 1..Len(SelectSeq(d.ingredient, LAMBDA r : r.recipe = recipe_model.id)) |->
                LET ing == SelectSeq(d.ingredient, LAMBDA r : r.recipe = recipe_model.id)[i]
                IN  [id |-> ing.id, name |-> ing.name, amount |-> ing.amount, unit |-> ing.unit]]
        stepRows == SortByOrder(SelectSeq(d.step, LAMBDA r : r.recipe = recipe_model.id))
        steps ==
            [i \in 1..Len(stepRows) |->
                [id |-> stepRows[i].id,
                 instructions |-> stepRows[i].instructions,
                 ingredients |->
                    LET linked == SelectSeq(d.ingredient,
                                    LAMBDA r : <<stepRows[i].id, r.id>> \in d.step_ingredient)
                    IN  [k \in 1..Len(linked) |-> linked[k].id]]]
        links == SelectSeq(d.recipe_tag, LAMBDA l : l[1] = recipe_model.id)
        tags == SortTexts([i \in 1..Len(links) |-> links[i][2]])
    IN  [id |-> recipe_model.id, userId |-> recipe_model.userId,
         title |-> recipe_model.title, description |-> recipe_model.description,
         prepTime |-> recipe_model.prepTime, cookTime |-> recipe_model.cookTime,
         servings |-> recipe_model.servings, imageUrl |-> recipe_model.imageUrl,
         ingredients |-> ingredients, steps |-> steps, tags |-> tags,
         createdAt |-> Isoformat(recipe_model.createdAt),
         updatedAt |-> Isoformat(recipe_model.updatedAt)]

\* title__icontains | description__icontains | tags__name__icontains
Database_search_match(d, row, query_lower) ==
    \/ Contains(lower(query_lower), lower(row.title))
    \/ Contains(lower(query_lower), lower(row.description))
    \/ \E l \in Range(d.recipe_tag) :
          l[1] = row.id /\ Contains(lower(query_lower), lower(l[2]))

Database_filtered(d, user_id, search) ==
    LET q0 == SortNewestFirst(d.recipe)
        q1 == IF TruthyStr(user_id)
              THEN SelectSeq(q0, LAMBDA r : r.userId = The(user_id))
              ELSE q0
    IN  IF TruthyText(search)
        THEN LET query_lower == lower(The(search))
             IN  SelectSeq(q1, LAMBDA r : Database_search_match(d, r, query_lower))
        ELSE q1

\* queryset[start:end]: Django refuses negative indices
Database_get_list(d, user_id, search, page, page_size) ==
    LET queryset == Database_filtered(d, user_id, search)
        total == Len(queryset)
        start_index == (page - 1) * page_size
        end_index == start_index + page_size
        rows == Paginate(queryset, page, page_size)
    IN  IF start_index < 0 \/ end_index < 0
        THEN [items |-> << >>, total |-> total, exc |-> Some("ValueError")]
        ELSE [items |-> [i \in 1..Len(rows) |-> Database_model_to_dict(d, rows[i])],
              total |-> total, exc |-> None]

Database_get_by_id(d, recipe_id) ==
    LET key == LookupKey(recipe_id)
    IN  IF HasPk(d.recipe, key)
        THEN Some(Database_model_to_dict(d,
                    d.recipe[FirstIndex({i \in 1..Len(d.recipe) : d.recipe[i].id = key})]))
        ELSE None

\* the id Model.objects.create() gives a row of Recipe, Ingredient or Step
DefaultPk == ""

\* str(idx)
ToStr(n) ==
    CASE n = 0 -> "0"
      [] n = 1 -> "1"
      [] n = 2 -> "2"
      [] OTHER -> "3"

Outcome(d, clock, ret, exc) == [db |-> d, now |-> clock, ret |-> ret, exc |-> exc]

\* the loop over the request's ingredients, from the idx-th on (1-based here,
\* enumerate() counts from 0): [db, map, exc]
RECURSIVE CreateIngredients(_, _, _, _, _)
CreateIngredients(d, rid, ings, idx, map) ==
    IF idx > Len(ings) THEN [db |-> d, map |-> map, exc |-> None]
    ELSE IF HasPk(d.ingredient, DefaultPk)
    THEN [db |-> d, map |-> map, exc |-> Some("IntegrityError")]
    ELSE LET ing_data == ings[idx]
             row == [id |-> DefaultPk, recipe |-> rid, name |-> ing_data.name,
                     amount |-> ing_data.amount, unit |-> Get(ing_data, "unit", "")]
             request_id == Get(ing_data, "id", ToStr(idx - 1))
             map1 == DictPut(DictPut(map, request_id, row.id), ToStr(idx - 1), row.id)
         IN  CreateIngredients([d EXCEPT !.ingredient = Append(@, row)],
                               rid, ings, idx + 1, map1)

\* the loop over the request's steps, linking every id a step lists as if it
\* were the key of an ingredient row
RECURSIVE CreateSteps_links_request_ids(_, _, _, _, _, _)
CreateSteps_links_request_ids(d, rid, steps, idx, map, has_map) ==
    IF idx > Len(steps) THEN [db |-> d, exc |-> None]
    ELSE IF HasPk(d.step, DefaultPk)
    THEN [db |-> d, exc |-> Some("IntegrityError")]
    ELSE LET step_data == steps[idx]
             row == [id |-> DefaultPk, recipe |-> rid,
                     instructions |-> step_data.instructions, order |-> idx]
             d1 == [d EXCEPT !.step = Append(@, row)]
             d2 == [d1 EXCEPT !.step_ingredient =
                        @ \cup {<<row.id, pk>> : pk \in Range(Get(step_data, "ingredients", << >>))}]
         IN  CreateSteps_links_request_ids(d2, rid, steps, idx + 1, map, has_map)

\* the loop over the request's steps; has_map is FALSE where the code reads
\* ingredient_id_map without having assigned it
RECURSIVE CreateSteps(_, _, _, _, _, _)
CreateSteps(d, rid, steps, idx, map, has_map) ==
    IF idx > Len(steps) THEN [db |-> d, exc |-> None]
    ELSE IF HasPk(d.step, DefaultPk)
    THEN [db |-> d, exc |-> Some("IntegrityError")]
    ELSE LET step_data == steps[idx]
             row == [id |-> DefaultPk, recipe |-> rid,
                     instructions |-> step_data.instructions, order |-> idx]
             d1 == [d EXCEPT !.step = Append(@, row)]
             ingredient_ids == Get(step_data, "ingredients", << >>)
             step_ingredients ==
                 {map[ingredient_ids[k]] :
                    k \in {j \in 1..Len(ingredient_ids) : ingredient_ids[j] \in DOMAIN map}}
             d2 == [d1 EXCEPT !.step_ingredient =
                        {l \in @ : l[1] # row.id} \cup {<<row.id, pk>> : pk \in step_ingredients}]
         IN  IF ~has_map /\ ingredient_ids # << >>
             THEN [db |-> d1, exc |-> Some("NameError")]
             ELSE CreateSteps(d2, rid, steps, idx + 1, map, has_map)

\* Tag.objects.get_or_create and RecipeTag.objects.get_or_create for every name
RECURSIVE LinkTags_always_creates(_, _, _)
LinkTags_always_creates(d, rid, tags) ==
    IF tags = << >> THEN d
    ELSE LinkTags_always_creates(
            [d EXCEPT !.tag = Append(@, Head(tags)),
                      !.recipe_tag = Append(@, <<rid, Head(tags)>>)],
            rid, Tail(tags))

\* the row is in the table already, or is added to it
GetOrCreate(table, row) ==
    IF row \in Range(table) THEN table ELSE Append(table, row)

RECURSIVE LinkTags(_, _, _)
LinkTags(d, rid, tags) ==
    IF tags = << >> THEN d
    ELSE LinkTags([d EXCEPT !.tag = GetOrCreate(@, Head(tags)),
                            !.recipe_tag = GetOrCreate(@, <<rid, Head(tags)>>)],
                  rid, Tail(tags))

Database_create(d, clock, recipe) ==
    LET hasC == "createdAt" \in DOMAIN recipe
        created_at == IF hasC THEN ParseTs(recipe.createdAt) ELSE clock
        c1 == IF hasC THEN clock ELSE clock + 1
        hasU == "updatedAt" \in DOMAIN recipe
        c2 == IF hasU THEN c1 ELSE c1 + 1
        \* updatedAt is auto_now: pre_save() replaces the value passed in
        row == [id |-> DefaultPk, userId |-> recipe.userId, title |-> recipe.title,
                description |-> recipe.description, prepTime |-> recipe.prepTime,
                cookTime |-> recipe.cookTime, servings |-> recipe.servings,
                imageUrl |-> Get(recipe, "imageUrl", "None"),
                createdAt |-> created_at, updatedAt |-> c2]
        c3 == c2 + 1
        d1 == [d EXCEPT !.recipe = Append(@, row)]
        r2 == CreateIngredients(d1, row.id, Get(recipe, "ingredients", << >>), 1, << >>)
        r3 == CreateSteps(r2.db, row.id, Get(recipe, "steps", << >>), 1, r2.map, TRUE)
        d4 == LinkTags(r3.db, row.id, Get(recipe, "tags", << >>))
    IN  IF HasPk(d.recipe, row.id) \/ "imageUrl" \notin DOMAIN recipe
        THEN Outcome(d, c3, None, Some("IntegrityError"))
        ELSE IF r2.exc # None THEN Outcome(r2.db, c3, None, r2.exc)
        ELSE IF r3.exc # None THEN Outcome(r3.db, c3, None, r3.exc)
        ELSE Outcome(d4, c3, Database_get_by_id(d4, row.id), None)

Database_update(d, clock, recipe_id, recipe_data) ==
    LET key == LookupKey(recipe_id)
        i == FirstIndex({i \in 1..Len(d.recipe) : d.recipe[i].id = key})
        old == d.recipe[i]
        Field(k) == IF k \in DOMAIN recipe_data THEN recipe_data[k] ELSE old[k]
        \* the payload's updatedAt is parsed and assigned, then save() applies auto_now
        recipe_model ==
            [id |-> old.id, userId |-> Field("userId"), title |-> Field("title"),
             description |-> Field("description"), prepTime |-> Field("prepTime"),
             cookTime |-> Field("cookTime"), servings |-> Field("servings"),
             imageUrl |-> Field("imageUrl"), createdAt |-> old.createdAt,
             updatedAt |-> clock]
        c1 == clock + 1
        d1 == [d EXCEPT !.recipe[i] = recipe_model]
        hasI == "ingredients" \in DOMAIN recipe_data
        r2 == IF hasI
              THEN CreateIngredients(DeleteIngredientsOf(d1, old.id), old.id,
                                     recipe_data.ingredients, 1, << >>)
              ELSE [db |-> d1, map |-> << >>, exc |-> None]
        r3 == IF "steps" \in DOMAIN recipe_data
              THEN CreateSteps(DeleteStepsOf(r2.db, old.id), old.id,
                               recipe_data.steps, 1, r2.map, hasI)
              ELSE [db |-> r2.db, exc |-> None]
        d4 == IF "tags" \in DOMAIN recipe_data
              THEN LinkTags(DeleteRecipeTagsOf(r3.db, old.id), old.id, recipe_data.tags)
              ELSE r3.db
    IN  IF i = 0 THEN Outcome(d, clock, None, None)
        ELSE IF r2.exc # None THEN Outcome(r2.db, c1, None, r2.exc)
        ELSE IF r3.exc # None THEN Outcome(r3.db, c1, None, r3.exc)
        ELSE Outcome(d4, c1, Database_get_by_id(d4, recipe_id), None)

Database_delete(d, recipe_id) ==
    LET key == LookupKey(recipe_id)
    IN  IF HasPk(d.recipe, key)
        THEN [db |-> DeleteRecipeRow(d, key), ret |-> TRUE]
        ELSE [db |-> d, ret |-> FALSE]

----------------------------------------------------------------------------
(***************************************************************************)
(* RecipesService.                                                         *)
(***************************************************************************)
SimpleKeys == {"id", "userId", "title", "description", "imageUrl", "tags"}
DetailLevels == {"simple", "detailed"}

\* _format_recipe: [ret, exc]; recipe[k] of a missing key raises KeyError
Service_format_recipe(recipe, detail_level) ==
    IF detail_level = "simple"
    THEN IF SimpleKeys \subseteq DOMAIN recipe
         THEN [ret |-> Some([k \in SimpleKeys |-> recipe[k]]), exc |-> None]
         ELSE [ret |-> None, exc |-> Some("KeyError")]
    ELSE [ret |-> Some(recipe), exc |-> None]

\* _format_recipe on objects: [heap, ret, exc].  The
\* simple projection is a new dict whose every key is bound to the object the
\* recipe holds under it; the detailed one is recipe.copy()
Heap_format_recipe(h, recipe, detail_level) ==
    LET o == h[recipe]
        keys == (DOMAIN o.prim) \cup (DOMAIN o.refs)
        formatted ==
            DictObj([k \in SimpleKeys \cap DOMAIN o.prim |-> o.prim[k]],
                    [k \in SimpleKeys \cap DOMAIN o.refs |-> o.refs[k]])
    IN  IF detail_level = "simple"
        THEN IF SimpleKeys \subseteq keys
             THEN [heap |-> Append(h, formatted), ret |-> Some(Len(h) + 1), exc |-> None]
             ELSE [heap |-> h, ret |-> None, exc |-> Some("KeyError")]
        ELSE LET c == ShallowCopy(h, recipe)
             IN  [heap |-> c.heap, ret |-> Some(c.addr), exc |-> None]

\* (mutant) total_pages by floor division
Service_pagination_floor(total, page, page_size) ==
    LET total_pages == IF total > 0 THEN PyFloorDiv(total, page_size) ELSE 0
    IN  [page |-> page, page_size |-> page_size, total |-> total,
         total_pages |-> total_pages,
         has_next |-> page < total_pages,
         has_previous |-> page > 1]

\* (mutant) has_next still true on the last page
Service_pagination_next_on_last(total, page, page_size) ==
    LET total_pages == IF total > 0
                       THEN PyFloorDiv(total + page_size - 1, page_size)
                       ELSE 0
    IN  [page |-> page, page_size |-> page_size, total |-> total,
         total_pages |-> total_pages,
         has_next |-> page <= total_pages,
         has_previous |-> page > 1]

\* lines 55-72: the pagination block from the repository's total
Service_pagination(total, page, page_size) ==
    LET total_pages == IF total > 0
                       THEN PyFloorDiv(total + page_size - 1, page_size)
                       ELSE 0
    IN  [page |-> page, page_size |-> page_size, total |-> total,
         total_pages |-> total_pages,
         has_next |-> page < total_pages,
         has_previous |-> page > 1]

\* get_list on the result `res` of repository.get_list: [ret, exc]
Service_get_list(res, page, page_size, detail_level) ==
    LET formatted == [i \in 1..Len(res.items) |->
                        Service_format_recipe(res.items[i], detail_level)]
    IN  IF res.exc # None THEN [ret |-> None, exc |-> res.exc]
        ELSE IF res.total > 0 /\ page_size = 0
        THEN [ret |-> None, exc |-> Some("ZeroDivisionError")]
        ELSE IF \E i \in 1..Len(formatted) : formatted[i].exc # None
        THEN [ret |-> None, exc |-> Some("KeyError")]
        ELSE [ret |-> Some([recipes |-> [i \in 1..Len(formatted) |-> The(formatted[i].ret)],
                            pagination |-> Service_pagination(res.total, page, page_size)]),
              exc |-> None]

----------------------------------------------------------------------------
(***************************************************************************)
(* The other operations of RecipesService, and the HTTP endpoints          *)
(* (apps/recipe/endpoints/recipes.py).  The endpoints' service is built    *)
(* with a DatabaseRecipesRepository.  A query parameter is None when the   *)
(* request leaves it out and its text otherwise.                           *)
(***************************************************************************)
\* lines 101-115: `if recipe:` on the repository's Optional result
Service_get_by_id(recipe, detail_level) ==
    IF recipe # None
    THEN Service_format_recipe(The(recipe), detail_level)
    ELSE [ret |-> None, exc |-> None]

\* int(text): the texts the requests use
IsIntText(text) == text \in {"-1", "0", "1", "2"}
IntOf(text) ==
    CASE text = "-1" -> -1
      [] text = "0" -> 0
      [] text = "1" -> 1
      [] OTHER -> 2

\* Response(body, status=...); fault is the exception the handler caught, if any
Response(status, body, fault) == [status |-> status, body |-> body, fault |-> fault]
ErrorBody(message) == [error |-> message]

\* (mutant) a page or page_size that is not a number is answered like any
\* other exception
Endpoint_get_list_no_value_error(d, page_raw, page_size_raw, search, user_id, level_raw) ==
    LET readable == /\ (page_raw = None \/ IsIntText(The(page_raw)))
                    /\ (page_size_raw = None \/ IsIntText(The(page_size_raw)))
        page == IF page_raw = None THEN 1 ELSE IntOf(The(page_raw))
        page_size == IF page_size_raw = None THEN 10 ELSE IntOf(The(page_size_raw))
        detail_level == IF level_raw = None THEN "detailed" ELSE The(level_raw)
        result == Service_get_list(Database_get_list(d, user_id, search, page, page_size),
                                   page, page_size, detail_level)
    IN  IF ~readable
        THEN Response(500, ErrorBody("An error occurred"), Some("ValueError"))
        ELSE IF page < 1
        THEN Response(400, ErrorBody("page must be greater than 0"), None)
        ELSE IF page_size < 1
        THEN Response(400, ErrorBody("page_size must be greater than 0"), None)
        ELSE IF detail_level \notin {"simple", "detailed"}
        THEN Response(400, ErrorBody("detail_level must be 'simple' or 'detailed'"), None)
        ELSE IF result.exc = Some("ValueError")
        THEN Response(400, ErrorBody("Invalid parameter"), result.exc)
        ELSE IF result.exc # None
        THEN Response(500, ErrorBody("An error occurred"), result.exc)
        ELSE Response(200, The(result.ret), None)

\* lines 30-93
Endpoint_get_list(d, page_raw, page_size_raw, search, user_id, level_raw) ==
    LET readable == /\ (page_raw = None \/ IsIntText(The(page_raw)))
                    /\ (page_size_raw = None \/ IsIntText(The(page_size_raw)))
        page == IF page_raw = None THEN 1 ELSE IntOf(The(page_raw))
        page_size == IF page_size_raw = None THEN 10 ELSE IntOf(The(page_size_raw))
        detail_level == IF level_raw = None THEN "detailed" ELSE The(level_raw)
        result == Service_get_list(Database_get_list(d, user_id, search, page, page_size),
                                   page, page_size, detail_level)
    IN  IF ~readable
        THEN Response(400, ErrorBody("Invalid parameter"), Some("ValueError"))
        ELSE IF page < 1
        THEN Response(400, ErrorBody("page must be greater than 0"), None)
        ELSE IF page_size < 1
        THEN Response(400, ErrorBody("page_size must be greater than 0"), None)
        ELSE IF detail_level \notin {"simple", "detailed"}
        THEN Response(400, ErrorBody("detail_level must be 'simple' or 'detailed'"), None)
        ELSE IF result.exc = Some("ValueError")
        THEN Response(400, ErrorBody("Invalid parameter"), result.exc)
        ELSE IF result.exc # None
        THEN Response(500, ErrorBody("An error occurred"), result.exc)
        ELSE Response(200, The(result.ret), None)

\* lines 96-134
Endpoint_get_by_id(d, recipe_id, level_raw) ==
    LET detail_level == IF level_raw = None THEN "detailed" ELSE The(level_raw)
        recipe == Service_get_by_id(Database_get_by_id(d, recipe_id), detail_level)
    IN  IF detail_level \notin {"simple", "detailed"}
        THEN Response(400, ErrorBody("detail_level must be 'simple' or 'detailed'"), None)
        ELSE IF recipe.exc # None
        THEN Response(500, ErrorBody("An error occurred"), recipe.exc)
        ELSE IF recipe.ret # None
        THEN Response(200, The(recipe.ret), None)
        ELSE Response(404, ErrorBody("Recipe not found"), None)

RequiredFields ==
    {"title", "description", "prepTime", "cookTime", "servings", "ingredients",
     "steps", "tags"}

\* (mutant) create keeps the userId of a body that has one
Endpoint_create_keeps_body_user(d, clock, user, data) ==
    LET d1 == IF "userId" \in DOMAIN data THEN data ELSE DictPut(data, "userId", user)
        current_time == Isoformat(clock)
        d2 == IF "createdAt" \in DOMAIN d1 THEN d1 ELSE DictPut(d1, "createdAt", current_time)
        recipe_data == IF "updatedAt" \in DOMAIN d2 THEN d2
                       ELSE DictPut(d2, "updatedAt", current_time)
        r == Database_create(d, clock + 1, recipe_data)
    IN  IF ~(RequiredFields \subseteq DOMAIN d1)
        THEN [db |-> d, now |-> clock,
              response |-> Response(400, ErrorBody("Missing required fields"), None)]
        ELSE IF r.exc # None
        THEN [db |-> r.db, now |-> r.now,
              response |-> Response(500, ErrorBody("An error occurred"), r.exc)]
        ELSE [db |-> r.db, now |-> r.now, response |-> Response(201, The(r.ret), None)]

\* lines 137-183: [db, now, response]; user is str(request.user.id)
Endpoint_create(d, clock, user, data) ==
    LET d1 == DictPut(data, "userId", user)
        current_time == Isoformat(clock)
        d2 == IF "createdAt" \in DOMAIN d1 THEN d1 ELSE DictPut(d1, "createdAt", current_time)
        recipe_data == IF "updatedAt" \in DOMAIN d2 THEN d2
                       ELSE DictPut(d2, "updatedAt", current_time)
        r == Database_create(d, clock + 1, recipe_data)
    IN  IF ~(RequiredFields \subseteq DOMAIN d1)
        THEN [db |-> d, now |-> clock,
              response |-> Response(400, ErrorBody("Missing required fields"), None)]
        ELSE IF r.exc # None
        THEN [db |-> r.db, now |-> r.now,
              response |-> Response(500, ErrorBody("An error occurred"), r.exc)]
        ELSE [db |-> r.db, now |-> r.now, response |-> Response(201, The(r.ret), None)]

\* lines 200-231
Endpoint_update(d, clock, recipe_id, recipe_data) ==
    LET r == Database_update(d, clock, recipe_id, recipe_data)
    IN  IF r.exc # None
        THEN [db |-> r.db, now |-> r.now,
              response |-> Response(500, ErrorBody("An error occurred"), r.exc)]
        ELSE IF r.ret # None
        THEN [db |-> r.db, now |-> r.now, response |-> Response(200, The(r.ret), None)]
        ELSE [db |-> r.db, now |-> r.now,
              response |-> Response(404, ErrorBody("Recipe not found"), None)]

\* lines 234-262
Endpoint_delete(d, recipe_id) ==
    LET r == Database_delete(d, recipe_id)
    IN  IF r.ret
        THEN [db |-> r.db,
              response |-> Response(200, [message |-> "Recipe deleted successfully"], None)]
        ELSE [db |-> r.db, response |-> Response(404, ErrorBody("Recipe not found"), None)]

----------------------------------------------------------------------------
(***************************************************************************)
(* apps/auth/endpoints/create_user.py.  Texts are sequences of characters; *)
(* the element "fi" stands for the single character U+FB01, the ligature   *)
(* that Unicode normalisation NFKC replaces by the two letters f and i.    *)
(* A password is modelled by its length.                                   *)
(***************************************************************************)
\* str.strip()
RECURSIVE Strip(_)
Strip(text) ==
    IF text = << >> THEN text
    ELSE IF Head(text) = " " THEN Strip(Tail(text))
    ELSE IF text[Len(text)] = " " THEN Strip(SubSeq(text, 1, Len(text) - 1))
    ELSE text

\* AbstractBaseUser.normalize_username: unicodedata.normalize("NFKC", username)
RECURSIVE Nfkc(_)
Nfkc(text) ==
    IF text = << >> THEN text
    ELSE IF Head(text) = "fi" THEN <<"f", "i">> \o Nfkc(Tail(text))
    ELSE <<Head(text)>> \o Nfkc(Tail(text))

\* the position of the last "@" of the text, or 0
LastAt(text) ==
    IF \E i \in 1..Len(text) : text[i] = "@"
    THEN CHOOSE i \in 1..Len(text) :
            text[i] = "@" /\ \A j \in (i + 1)..Len(text) : text[j] # "@"
    ELSE 0

\* BaseUserManager.normalize_email: the part after the last "@" in lower case
NormalizeEmail(email) ==
    LET at == LastAt(Strip(email))
    IN  IF at = 0 THEN email
        ELSE SubSeq(Strip(email), 1, at) \o lower(SubSeq(Strip(email), at + 1, Len(Strip(email))))

\* the ASCII letters the texts of the model are written with; user_regex and
\* domain_regex are matched without regard to case
AsciiLetters ==
    {"a", "b", "c", "e", "f", "h", "i", "j", "l", "m", "n", "o", "p", "s", "t", "x",
     "A", "B"}

\* letters in groups separated by single dots: the dot-atom of user_regex,
\* and the labels of domain_regex
DotAtom(text) ==
    /\ text # << >>
    /\ \A i \in 1..Len(text) : text[i] = "." \/ text[i] \in AsciiLetters
    /\ Head(text) # "." /\ text[Len(text)] # "."
    /\ \A i \in 1..(Len(text) - 1) : ~(text[i] = "." /\ text[i + 1] = ".")

\* EmailValidator.domain_allowlist
DomainAllowlist == {<<"l", "o", "c", "a", "l", "h", "o", "s", "t">>}

\* EmailValidator.validate_domain_part: domain_regex wants one label and a dot
\* or more, then a last label of 2..63 characters
ValidDomainPart(domain) ==
    /\ DotAtom(domain)
    /\ \E i \in 1..Len(domain) :
          /\ domain[i] = "."
          /\ \A j \in (i + 1)..Len(domain) : domain[j] # "."
          /\ Len(domain) - i >= 2
          /\ Len(domain) - i <= 63

\* validate_email (EmailValidator.__call__): the text is split at its last
\* "@"; the user part is a dot-atom, the domain is in the allowlist or
\* matches domain_regex
ValidEmail(email) ==
    LET at == LastAt(email)
        user_part == SubSeq(email, 1, at - 1)
        domain_part == SubSeq(email, at + 1, Len(email))
    IN  /\ at > 0
        /\ DotAtom(user_part)
        /\ domain_part \in DomainAllowlist \/ ValidDomainPart(domain_part)

\* User.objects.filter(field=value).exists(): the comparison is exact
UserExists(d, field, value) ==
    \E i \in 1..Len(d.auth_user) : d.auth_user[i][field] = value

\* UserManager.create_user: [db, user, exc]; the unique index on username
\* rejects a second row with the same username
Create_user(d, username, email) ==
    LET row == [id |-> Len(d.auth_user) + 1, username |-> Nfkc(username),
                email |-> NormalizeEmail(email)]
    IN  IF UserExists(d, "username", row.username)
        THEN [db |-> d, user |-> None, exc |-> Some("IntegrityError")]
        ELSE [db |-> [d EXCEPT !.auth_user = Append(@, row)], user |-> Some(row),
              exc |-> None]

\* lines 10-101: [db, response]
Endpoint_create_user(d, raw_username, raw_email, password) ==
    LET username == Strip(raw_username)
        email == Strip(raw_email)
        r == Create_user(d, username, email)
    IN  IF username = << >>
        THEN [db |-> d, response |-> Response(400, ErrorBody("Username is required"), None)]
        ELSE IF email = << >>
        THEN [db |-> d, response |-> Response(400, ErrorBody("Email is required"), None)]
        ELSE IF password = 0
        THEN [db |-> d, response |-> Response(400, ErrorBody("Password is required"), None)]
        ELSE IF ~ValidEmail(email)
        THEN [db |-> d, response |-> Response(400, ErrorBody("Invalid email format"), None)]
        ELSE IF UserExists(d, "username", username)
        THEN [db |-> d,
              response |-> Response(400, ErrorBody("Username already exists"), None)]
        ELSE IF UserExists(d, "email", email)
        THEN [db |-> d,
              response |-> Response(400, ErrorBody("Email already exists"), None)]
        ELSE IF password < 8
        THEN [db |-> d,
              response |-> Response(400, ErrorBody("Password must be at least 8 characters long"), None)]
        ELSE IF r.exc # None
        THEN [db |-> r.db,
              response |-> Response(500, ErrorBody("Failed to create user"), r.exc)]
        ELSE [db |-> r.db, response |-> Response(201, [user |-> The(r.user)], None)]

\* apps/auth/endpoints/login.py
DEMO_EMAIL ==
    <<"j", "o", "h", "n", "@", "e", "x", "a", "m", "p", "l", "e", ".", "c", "o", "m">>
DEMO_PASSWORD == "T3stUs4rP4ss"

\* lines 13-76: [db, response]; the password is the text itself here
Endpoint_login(d, username, password) ==
    LET john == <<"j", "o", "h", "n">>
        r == Create_user(d, john, DEMO_EMAIL)
    IN  IF username = DEMO_EMAIL /\ password = DEMO_PASSWORD
        THEN IF UserExists(d, "username", john)
             THEN [db |-> d, response |-> Response(200, [token_type |-> "Bearer"], None)]
             ELSE [db |-> r.db, response |-> Response(200, [token_type |-> "Bearer"], None)]
        ELSE IF username # << >> /\ password # ""
        THEN IF UserExists(d, "username", <<"t", "e", "s", "t", "u", "s", "e", "r">>)
             THEN [db |-> d, response |-> Response(200, [token_type |-> "Bearer"], None)]
             ELSE [db |-> d,
                   response |-> Response(500, ErrorBody("System not initialized"), None)]
        ELSE [db |-> d,
              response |-> Response(401, ErrorBody("Invalid email or password"), None)]

----------------------------------------------------------------------------
(***************************************************************************)
(* Copies of the database file: backend/db_backup.py copies the file into  *)
(* db_backups before `manage.py migrate` runs, and                         *)
(* `manage.py list_backups --restore` copies one of them back.  A file is  *)
(* named after the second it was written in (at) and holds every table.    *)
(***************************************************************************)
\* db_backups without files
NoBackups == [db_backup |-> << >>, pre_restore |-> << >>]

\* shutil.copy2(db_path, path): the copy replaces a file of the same name;
\* the files are kept in descending order of their names
RECURSIVE CopyTo(_, _, _)
CopyTo(copies, at, d) ==
    IF copies = << >> THEN <<[at |-> at, db |-> d]>>
    ELSE IF Head(copies).at = at THEN <<[at |-> at, db |-> d]>> \o Tail(copies)
    ELSE IF Head(copies).at < at THEN <<[at |-> at, db |-> d]>> \o copies
    ELSE <<Head(copies)>> \o CopyTo(Tail(copies), at, d)

\* db_backup.py lines 18-41: db_backup_<timestamp>.sqlite3
Backup_sqlite_database(fs, d, clock) ==
    [fs EXCEPT !.db_backup = CopyTo(@, clock, d)]

\* `restore_arg in backup.name` for the names db_backup_<digits>.sqlite3
NameHas(restore_arg) == restore_arg = "db_backup"

\* list_backups.py lines 20-95 with --restore: [files, db, restored].
\* backups is sorted(glob('db_backup_*.sqlite3'), reverse=True)
List_backups_restore(fs, d, clock, restore_arg) ==
    LET backups == fs.db_backup
        index == IntOf(restore_arg) - 1
        backup_path ==
            IF IsIntText(restore_arg)
            THEN IF 0 <= index /\ index < Len(backups) THEN index + 1 ELSE 0
            ELSE IF NameHas(restore_arg) THEN 1 ELSE 0
    IN  IF backups = << >> \/ backup_path = 0
        THEN [files |-> fs, db |-> d, restored |-> FALSE]
        ELSE [files |-> [fs EXCEPT !.pre_restore = CopyTo(@, clock, d)],
              db |-> backups[backup_path].db, restored |-> TRUE]

----------------------------------------------------------------------------
(***************************************************************************)
(* The repository the service holds, by backend.                           *)
(***************************************************************************)
Repo_get_list(be, rs, d, user_id, search, page, page_size) ==
    IF be = "mock"
    THEN LET r == Mocked_get_list(rs, user_id, search, page, page_size)
         IN  [items |-> r.items, total |-> r.total, exc |-> None]
    ELSE Database_get_list(d, user_id, search, page, page_size)

Repo_get_by_id(be, rs, d, recipe_id) ==
    IF be = "mock" THEN Mocked_get_by_id(rs, recipe_id)
    ELSE Database_get_by_id(d, recipe_id)

----------------------------------------------------------------------------
(***************************************************************************)
(* Actions: one per call.                                                  *)
(***************************************************************************)
Init ==
    /\ backend \in {"mock", "db"}
    /\ recipes = mock_recipes
    /\ db = EmptyDb
    /\ now = 10
    /\ nOps = 0
    /\ last = [op |-> "init"]
    /\ mem = InitialMemory
    /\ proc = InitialProcess
    /\ files = NoBackups

MockCreate(recipe) ==
    /\ backend = "mock"
    /\ nOps < MaxOps
    /\ LET r == Mocked_create(recipes, recipe)
       IN  /\ recipes' = r.store
           /\ last' = [op |-> "create", recipe |-> recipe, ret |-> Some(r.ret), exc |-> None]
    /\ nOps' = nOps + 1
    /\ UNCHANGED <<files, proc, mem, backend, db, now>>

MockUpdate(recipe_id, recipe_data) ==
    /\ backend = "mock"
    /\ nOps < MaxOps
    /\ LET r == Mocked_update(recipes, recipe_id, recipe_data)
       IN  /\ recipes' = r.store
           /\ last' = [op |-> "update", recipe_id |-> recipe_id, recipe_data |-> recipe_data,
                       ret |-> r.ret, exc |-> None]
    /\ nOps' = nOps + 1
    /\ UNCHANGED <<files, proc, mem, backend, db, now>>

MockDelete(recipe_id) ==
    /\ backend = "mock"
    /\ nOps < MaxOps
    /\ LET r == Mocked_delete(recipes, recipe_id)
       IN  /\ recipes' = r.store
           /\ last' = [op |-> "delete", recipe_id |-> recipe_id, ret |-> r.ret, exc |-> None]
    /\ nOps' = nOps + 1
    /\ UNCHANGED <<files, proc, mem, backend, db, now>>

MockGetById(recipe_id) ==
    /\ backend = "mock"
    /\ last' = [op |-> "get_by_id", recipe_id |-> recipe_id,
                ret |-> Mocked_get_by_id(recipes, recipe_id), exc |-> None]
    /\ UNCHANGED <<files, proc, mem, backend, recipes, db, now, nOps>>

\* the pages and totals a listing has returned so far: page 1 starts a listing
PagesSoFar(page, items) ==
    IF page = 1 THEN <<items>> ELSE Append(last.pages, items)
TotalsSoFar(page, total) ==
    IF page = 1 THEN <<total>> ELSE Append(last.totals, total)

MockGetList(user_id, search, page, page_size) ==
    /\ backend = "mock"
    /\ LET r == Mocked_get_list(recipes, user_id, search, page, page_size)
       IN  last' = [op |-> "get_list", user_id |-> user_id, search |-> search,
                    page |-> page, page_size |-> page_size,
                    ret |-> r, exc |-> None,
                    pages |-> PagesSoFar(page, r.items),
                    totals |-> TotalsSoFar(page, r.total)]
    /\ UNCHANGED <<files, proc, mem, backend, recipes, db, now, nOps>>

DbCreate(recipe) ==
    /\ backend = "db"
    /\ nOps < MaxOps
    /\ LET r == Database_create(db, now, recipe)
       IN  /\ db' = r.db
           /\ now' = r.now
           /\ last' = [op |-> "create", recipe |-> recipe, ret |-> r.ret, exc |-> r.exc]
    /\ nOps' = nOps + 1
    /\ UNCHANGED <<files, proc, mem, backend, recipes>>

DbUpdate(recipe_id, recipe_data) ==
    /\ backend = "db"
    /\ nOps < MaxOps
    /\ LET r == Database_update(db, now, recipe_id, recipe_data)
       IN  /\ db' = r.db
           /\ now' = r.now
           /\ last' = [op |-> "update", recipe_id |-> recipe_id, recipe_data |-> recipe_data,
                       ret |-> r.ret, exc |-> r.exc]
    /\ nOps' = nOps + 1
    /\ UNCHANGED <<files, proc, mem, backend, recipes>>

DbDelete(recipe_id) ==
    /\ backend = "db"
    /\ nOps < MaxOps
    /\ LET r == Database_delete(db, recipe_id)
       IN  /\ db' = r.db
           /\ last' = [op |-> "delete", recipe_id |-> recipe_id, ret |-> r.ret, exc |-> None]
    /\ nOps' = nOps + 1
    /\ UNCHANGED <<files, proc, mem, backend, recipes, now>>

DbGetById(recipe_id) ==
    /\ backend = "db"
    /\ last' = [op |-> "get_by_id", recipe_id |-> recipe_id,
                ret |-> Database_get_by_id(db, recipe_id), exc |-> None]
    /\ UNCHANGED <<files, proc, mem, backend, recipes, db, now, nOps>>

DbGetList(user_id, search, page, page_size) ==
    /\ backend = "db"
    /\ LET r == Database_get_list(db, user_id, search, page, page_size)
       IN  last' = [op |-> "get_list", user_id |-> user_id, search |-> search,
                    page |-> page, page_size |-> page_size,
                    ret |-> [items |-> r.items, total |-> r.total], exc |-> r.exc,
                    pages |-> PagesSoFar(page, r.items),
                    totals |-> TotalsSoFar(page, r.total)]
    /\ UNCHANGED <<files, proc, mem, backend, recipes, db, now, nOps>>

ServiceGetList(page, page_size, search, user_id, detail_level) ==
    /\ LET res == Repo_get_list(backend, recipes, db, user_id, search, page, page_size)
           r == Service_get_list(res, page, page_size, detail_level)
       IN  last' = [op |-> "service.get_list", user_id |-> user_id, search |-> search,
                    page |-> page, page_size |-> page_size, detail_level |-> detail_level,
                    ret |-> r.ret, exc |-> r.exc,
                    \* line 47: the repository is called before anything else
                    repo_calls |-> 1]
    /\ UNCHANGED <<files, proc, mem, backend, recipes, db, now, nOps>>

\* the caller asks for the page after the one it has, until it has seen a page
\* past the last one
MorePages ==
    /\ last.op = "get_list"
    /\ last.exc = None
    /\ (last.page - 1) * last.page_size < last.ret.total

\* create, update, delete and get_by_id on either repository
\* the seconds that pass before a command runs
Ticks == {0, 1}
RestoreArgs == {"0", "1", "2", "x", "db_backup"}

\* manage.py migrate: pre_migrate_backup copies the database file; the schema
\* of src/ has no migration left to apply
Migrate(tick) ==
    /\ backend = "db"
    /\ nOps < MaxOps
    /\ files' = Backup_sqlite_database(files, db, now + tick)
    /\ now' = now + tick
    /\ last' = [op |-> "migrate"]
    /\ nOps' = nOps + 1
    /\ UNCHANGED <<proc, mem, backend, recipes, db>>

\* manage.py list_backups --restore restore_arg
ListBackupsRestore(restore_arg, tick) ==
    /\ backend = "db"
    /\ nOps < MaxOps
    /\ \E r \in {List_backups_restore(files, db, now + tick, restore_arg)} :
           /\ files' = r.files
           /\ db' = r.db
           /\ last' = [op |-> "list_backups", restore_arg |-> restore_arg,
                       restored |-> r.restored]
    /\ now' = now + tick
    /\ nOps' = nOps + 1
    /\ UNCHANGED <<proc, mem, backend, recipes>>

Next ==
    \/ \E r \in CreateInputs : MockCreate(r)
    \/ \E i \in LookupIds, p \in UpdateInputs : MockUpdate(i, p)
    \/ \E i \in LookupIds : MockDelete(i)
    \/ \E i \in LookupIds : MockGetById(i)
    \/ \E r \in CreateInputs : DbCreate(r)
    \/ \E i \in LookupIds, p \in UpdateInputs : DbUpdate(i, p)
    \/ \E i \in LookupIds : DbDelete(i)
    \/ \E i \in LookupIds : DbGetById(i)
    \/ \E t \in Ticks : Migrate(t)
    \/ \E a \in RestoreArgs, t \in Ticks : ListBackupsRestore(a, t)

Spec == Init /\ [][Next]_vars

\* listing: create and delete change the store, get_list reads it page by page
NextList ==
    \/ \E r \in CreateInputs : MockCreate(r)
    \/ \E i \in Ids : MockDelete(i)
    \/ \E u \in Owners, q \in Searches, s \in Sizes : MockGetList(u, q, 1, s)
    \/ /\ MorePages
       /\ MockGetList(last.user_id, last.search, last.page + 1, last.page_size)
    \/ \E r \in CreateInputs : DbCreate(r)
    \/ \E i \in Ids : DbDelete(i)
    \/ \E u \in Owners, q \in Searches, s \in Sizes : DbGetList(u, q, 1, s)
    \/ /\ MorePages
       /\ DbGetList(last.user_id, last.search, last.page + 1, last.page_size)
    \/ \E p \in ServicePages, s \in Sizes, u \in ServiceOwners, l \in DetailLevels :
            ServiceGetList(p, s, None, u, l)

SpecList == Init /\ [][NextList]_vars

----------------------------------------------------------------------------
(***************************************************************************)
(* Requests: the service called with any arguments, on either repository.  *)
(***************************************************************************)
AnyInts == {-1, 0, 1, 2}
AnyLevels == DetailLevels \cup {"bogus"}

\* what the requests carry
RawInts == {None, Some("-1"), Some("0"), Some("1"), Some("2"), Some("x")}
RawLevels == {None, Some("simple"), Some("bogus")}
PathIds == {"1", "01", "x"}
RequestUser == "7"

\* a request body without steps and tags
PostIncomplete == [title |-> <<"b">>, description |-> <<"x">>, prepTime |-> 5,
                   cookTime |-> 0, servings |-> 1, ingredients |-> << >>]
PostBodies == CreateInputs \cup {PostIncomplete, NoImage}

HttpGetList(page_raw, page_size_raw, level_raw) ==
    /\ backend = "db"
    /\ \E r \in {Endpoint_get_list(db, page_raw, page_size_raw, None, None, level_raw)} :
           last' = [op |-> "http", method |-> "GET", route |-> "list",
                    page |-> page_raw, page_size |-> page_size_raw,
                    detail_level |-> level_raw,
                    status |-> r.status, body |-> r.body, fault |-> r.fault]
    /\ UNCHANGED <<files, proc, mem, backend, recipes, db, now, nOps>>

HttpGetById(recipe_id, level_raw) ==
    /\ backend = "db"
    /\ \E r \in {Endpoint_get_by_id(db, recipe_id, level_raw)} :
           last' = [op |-> "http", method |-> "GET", route |-> "detail",
                    recipe_id |-> recipe_id, detail_level |-> level_raw,
                    status |-> r.status, body |-> r.body, fault |-> r.fault]
    /\ UNCHANGED <<files, proc, mem, backend, recipes, db, now, nOps>>

HttpPost(data) ==
    /\ backend = "db"
    /\ nOps < MaxOps
    /\ \E r \in {Endpoint_create(db, now, RequestUser, data)} :
           /\ db' = r.db
           /\ now' = r.now
           /\ last' = [op |-> "http", method |-> "POST", route |-> "list",
                       data |-> data, status |-> r.response.status,
                       body |-> r.response.body, fault |-> r.response.fault]
    /\ nOps' = nOps + 1
    /\ UNCHANGED <<files, proc, mem, backend, recipes>>

HttpPut(recipe_id, data) ==
    /\ backend = "db"
    /\ nOps < MaxOps
    /\ \E r \in {Endpoint_update(db, now, recipe_id, data)} :
           /\ db' = r.db
           /\ now' = r.now
           /\ last' = [op |-> "http", method |-> "PUT", route |-> "detail",
                       recipe_id |-> recipe_id, data |-> data,
                       status |-> r.response.status,
                       body |-> r.response.body, fault |-> r.response.fault]
    /\ nOps' = nOps + 1
    /\ UNCHANGED <<files, proc, mem, backend, recipes>>

HttpDelete(recipe_id) ==
    /\ backend = "db"
    /\ nOps < MaxOps
    /\ \E r \in {Endpoint_delete(db, recipe_id)} :
           /\ db' = r.db
           /\ last' = [op |-> "http", method |-> "DELETE", route |-> "detail",
                       recipe_id |-> recipe_id, status |-> r.response.status,
                       body |-> r.response.body, fault |-> r.response.fault]
    /\ nOps' = nOps + 1
    /\ UNCHANGED <<files, proc, mem, backend, recipes, now>>

NextRequests ==
    \/ \E r \in CreateInputs \cup {NoImage} : MockCreate(r)
    \/ \E r \in CreateInputs : DbCreate(r)
    \/ \E p \in AnyInts, z \in AnyInts, l \in AnyLevels :
            ServiceGetList(p, z, None, None, l)
    \/ \E p \in RawInts, z \in RawInts, l \in RawLevels : HttpGetList(p, z, l)
    \/ \E i \in PathIds, l \in RawLevels : HttpGetById(i, l)
    \/ \E b \in PostBodies : HttpPost(b)
    \/ \E i \in PathIds, p \in UpdateInputs : HttpPut(i, p)
    \/ \E i \in PathIds : HttpDelete(i)

SpecRequests == Init /\ [][NextRequests]_vars

----------------------------------------------------------------------------
(***************************************************************************)
(* Several MockedRecipesRepository instances in one process: a step builds *)
(* one more instance or is a call on one of the instances built so far.    *)
(***************************************************************************)
InstanceRecipeIds == {"1", "4"}

Instances == 1..Len(proc.instances)

NewInstance ==
    /\ backend = "mock"
    /\ nOps < MaxOps
    /\ proc' = Mocked_init(proc, recipes)
    /\ last' = [op |-> "__init__", inst |-> Len(proc.instances) + 1]
    /\ nOps' = nOps + 1
    /\ UNCHANGED <<files, mem, backend, recipes, db, now>>

\* a call on the instance has left its list as store
InstanceStores(inst, store) ==
    /\ recipes' = ModuleListAfter(proc, recipes, inst, store)
    /\ proc' = [proc EXCEPT !.own = OwnAfter(proc, inst, store)]

InstanceCreate(inst, recipe) ==
    /\ backend = "mock"
    /\ nOps < MaxOps
    /\ LET r == Mocked_create(StoreOf(proc, recipes, inst), recipe)
       IN  /\ InstanceStores(inst, r.store)
           /\ last' = [op |-> "create", inst |-> inst, recipe |-> recipe,
                       ret |-> Some(r.ret), exc |-> None]
    /\ nOps' = nOps + 1
    /\ UNCHANGED <<files, mem, backend, db, now>>

InstanceUpdate(inst, recipe_id, recipe_data) ==
    /\ backend = "mock"
    /\ nOps < MaxOps
    /\ LET r == Mocked_update(StoreOf(proc, recipes, inst), recipe_id, recipe_data)
       IN  /\ InstanceStores(inst, r.store)
           /\ last' = [op |-> "update", inst |-> inst, recipe_id |-> recipe_id,
                       recipe_data |-> recipe_data, ret |-> r.ret, exc |-> None]
    /\ nOps' = nOps + 1
    /\ UNCHANGED <<files, mem, backend, db, now>>

InstanceDelete(inst, recipe_id) ==
    /\ backend = "mock"
    /\ nOps < MaxOps
    /\ LET r == Mocked_delete(StoreOf(proc, recipes, inst), recipe_id)
       IN  /\ InstanceStores(inst, r.store)
           /\ last' = [op |-> "delete", inst |-> inst, recipe_id |-> recipe_id,
                       ret |-> r.ret, exc |-> None]
    /\ nOps' = nOps + 1
    /\ UNCHANGED <<files, mem, backend, db, now>>

InstanceGetById(inst, recipe_id) ==
    /\ backend = "mock"
    /\ last' = [op |-> "get_by_id", inst |-> inst, recipe_id |-> recipe_id,
                ret |-> Mocked_get_by_id(StoreOf(proc, recipes, inst), recipe_id),
                exc |-> None]
    /\ UNCHANGED <<files, proc, mem, backend, recipes, db, now, nOps>>

InstanceGetList(inst) ==
    /\ backend = "mock"
    /\ LET r == Mocked_get_list(StoreOf(proc, recipes, inst), None, None, 1, 10)
       IN  last' = [op |-> "get_list", inst |-> inst, items |-> r.items,
                    total |-> r.total, exc |-> None]
    /\ UNCHANGED <<files, proc, mem, backend, recipes, db, now, nOps>>

NextInstances ==
    \/ NewInstance
    \/ \E k \in Instances, r \in CreateInputs : InstanceCreate(k, r)
    \/ \E k \in Instances, i \in InstanceRecipeIds : InstanceUpdate(k, i, P_title)
    \/ \E k \in Instances, i \in InstanceRecipeIds : InstanceDelete(k, i)
    \/ \E k \in Instances, i \in InstanceRecipeIds : InstanceGetById(k, i)
    \/ \E k \in Instances : InstanceGetList(k)

SpecInstances == Init /\ [][NextInstances]_vars

----------------------------------------------------------------------------
(***************************************************************************)
(* The owner of a recipe.  The requests an authenticated user can make of  *)
(* /api/recipes/ and /api/recipes/<id>/; a PUT body may name an owner.     *)
(***************************************************************************)
\* a body that names an owner
P_owner == [userId |-> "9"]
OwnerPayloads == {P_owner, P_title}

NextOwner ==
    \/ \E b \in PostBodies : HttpPost(b)
    \/ \E i \in PathIds, p \in OwnerPayloads : HttpPut(i, p)
    \/ \E i \in PathIds, l \in RawLevels : HttpGetById(i, l)
    \/ \E i \in PathIds : HttpDelete(i)

SpecOwner == Init /\ [][NextOwner]_vars

----------------------------------------------------------------------------
(***************************************************************************)
(* One caller of the in-memory repository that keeps what it passed in and *)
(* what it got back, and writes to it.  The calls follow the objects in    *)
(* mem; recipes is kept as the value of the stored list.                   *)
(***************************************************************************)
AliasIds == {"1", "4"}
AliasSearches == {None, Some(<<"a", "b">>)}

Returned(m, ret) == IF ret = None THEN None ELSE Some(DeepValue(m.heap, The(ret)))

AliasGetById(recipe_id) ==
    /\ backend = "mock"
    /\ nOps < MaxCalls
    /\ LET r == Heap_get_by_id(mem, recipe_id)
       IN  /\ mem' = [r.mem EXCEPT !.got = r.ret]
           /\ last' = [op |-> "get_by_id", recipe_id |-> recipe_id,
                       ret |-> Returned(r.mem, r.ret), exc |-> None]
    /\ recipes' = StoreValue(mem')
    /\ nOps' = nOps + 1
    /\ UNCHANGED <<files, proc, backend, db, now>>

AliasGetList(user_id, search, page, page_size) ==
    /\ backend = "mock"
    /\ nOps < MaxCalls
    /\ LET r == Heap_get_list(mem, user_id, search, page, page_size)
       IN  /\ mem' = [r.mem EXCEPT !.got = r.ret]
           /\ last' = [op |-> "get_list", user_id |-> user_id, search |-> search,
                       page |-> page, page_size |-> page_size,
                       ret |-> [items |-> DeepValue(r.mem.heap, The(r.ret)),
                                total |-> r.total],
                       exc |-> None]
    /\ recipes' = StoreValue(mem')
    /\ nOps' = nOps + 1
    /\ UNCHANGED <<files, proc, backend, db, now>>

AliasCreate(recipe) ==
    /\ backend = "mock"
    /\ nOps < MaxCalls
    /\ LET arg == New(mem.heap, recipe)
           r == Heap_create([mem EXCEPT !.heap = arg.heap], arg.addr)
       IN  /\ mem' = [r.mem EXCEPT !.sent = Some(arg.addr)]
           /\ last' = [op |-> "create", recipe |-> recipe,
                       ret |-> Returned(r.mem, r.ret), exc |-> None]
    /\ recipes' = StoreValue(mem')
    /\ nOps' = nOps + 1
    /\ UNCHANGED <<files, proc, backend, db, now>>

AliasUpdate(recipe_id, recipe_data) ==
    /\ backend = "mock"
    /\ nOps < MaxCalls
    /\ LET arg == New(mem.heap, recipe_data)
           r == Heap_update([mem EXCEPT !.heap = arg.heap], recipe_id, arg.addr)
       IN  /\ mem' = [r.mem EXCEPT !.sent = Some(arg.addr)]
           /\ last' = [op |-> "update", recipe_id |-> recipe_id,
                       recipe_data |-> recipe_data,
                       ret |-> Returned(r.mem, r.ret), exc |-> None]
    /\ recipes' = StoreValue(mem')
    /\ nOps' = nOps + 1
    /\ UNCHANGED <<files, proc, backend, db, now>>

AliasDelete(recipe_id) ==
    /\ backend = "mock"
    /\ nOps < MaxCalls
    /\ LET r == Heap_delete(mem, recipe_id)
       IN  /\ mem' = r.mem
           /\ last' = [op |-> "delete", recipe_id |-> recipe_id, ret |-> r.ret,
                       exc |-> None]
    /\ recipes' = StoreValue(mem')
    /\ nOps' = nOps + 1
    /\ UNCHANGED <<files, proc, backend, db, now>>

\* the caller writes to the object at address a, which it reaches from the
\* reference it holds as root ("got" or "sent")
CallerMutates(root, a) ==
    /\ nOps < MaxCalls
    /\ mem[root] # None
    /\ a \in Reach(mem.heap, The(mem[root]))
    /\ mem' = [mem EXCEPT !.heap = CallerWrites(@, a)]
    /\ last' = [op |-> "caller_writes", root |-> root, addr |-> a,
                was |-> DeepValue(mem.heap, a)]
    /\ recipes' = StoreValue(mem')
    /\ nOps' = nOps + 1
    /\ UNCHANGED <<files, proc, backend, db, now>>

NextAlias ==
    \/ \E r \in CreateInputs : AliasCreate(r)
    \/ \E i \in AliasIds, p \in UpdateInputs : AliasUpdate(i, p)
    \/ \E i \in AliasIds : AliasDelete(i)
    \/ \E i \in AliasIds : AliasGetById(i)
    \/ \E q \in AliasSearches : AliasGetList(None, q, 1, 2)
    \/ \E root \in {"got", "sent"}, a \in 1..Len(mem.heap) : CallerMutates(root, a)

SpecAlias == Init /\ [][NextAlias]_vars

----------------------------------------------------------------------------
(***************************************************************************)
(* The two repositories side by side.  The in-memory repository is built   *)
(* on mock_recipes; the database gets the same recipes from the management *)
(* command seed_recipes, which hands them to DatabaseRecipesRepository.    *)
(* create() one after the other.  From then on every create goes to both.  *)
(***************************************************************************)
\* management/commands/seed_recipes.py, handle() without --force: [db, now]
RECURSIVE Seed_handle(_, _, _)
Seed_handle(d, clock, todo) ==
    IF todo = << >>
    THEN [db |-> d, now |-> clock]
    ELSE LET recipe_data == Head(todo)
             existing_recipe == Database_get_by_id(d, recipe_data.id)
             \* an exception of create() is caught and reported
             r == Database_create(d, clock, recipe_data)
         IN  IF existing_recipe # None
             THEN Seed_handle(d, clock, Tail(todo))
             ELSE Seed_handle(r.db, r.now, Tail(todo))

InitBackends ==
    /\ backend = "both"
    /\ recipes = mock_recipes
    /\ db = Seed_handle(EmptyDb, 10, mock_recipes).db
    /\ now = Seed_handle(EmptyDb, 10, mock_recipes).now
    /\ nOps = 0
    /\ last = [op |-> "seed_recipes"]
    /\ mem = InitialMemory
    /\ proc = InitialProcess
    /\ files = NoBackups

BothPages == 1..3

BothCreate(recipe) ==
    /\ nOps < MaxOps
    /\ LET m == Mocked_create(recipes, recipe)
           r == Database_create(db, now, recipe)
       IN  /\ recipes' = m.store
           /\ db' = r.db
           /\ now' = r.now
           /\ last' = [op |-> "both.create", recipe |-> recipe,
                       mock |-> Some(m.ret), db |-> r.ret, exc |-> r.exc]
    /\ nOps' = nOps + 1
    /\ UNCHANGED <<files, proc, mem, backend>>

BothGetList(user_id, search, page, page_size) ==
    /\ LET m == Mocked_get_list(recipes, user_id, search, page, page_size)
           r == Database_get_list(db, user_id, search, page, page_size)
       IN  last' = [op |-> "both.get_list", user_id |-> user_id, search |-> search,
                    page |-> page, page_size |-> page_size,
                    mock |-> [items |-> m.items, total |-> m.total],
                    db |-> [items |-> r.items, total |-> r.total], exc |-> r.exc]
    /\ UNCHANGED <<files, proc, mem, backend, recipes, db, now, nOps>>

NextBackends ==
    \/ \E r \in CreateInputs : BothCreate(r)
    \/ \E u \in Owners, q \in Searches, p \in BothPages, z \in Sizes :
            BothGetList(u, q, p, z)

SpecBackends == InitBackends /\ [][NextBackends]_vars

----------------------------------------------------------------------------
(***************************************************************************)
(* Two threads of one process, each making one call of update() or         *)
(* delete() on the in-memory repository.  A step is one statement of one   *)
(* thread; the threads' statements interleave in every order.              *)
(***************************************************************************)
ThreadIds == {"1", "2", "3"}
ThreadPayloads == {P_title, P_tags}

ThreadUpdate(t, recipe_id, recipe_data) ==
    /\ backend = "mock"
    /\ proc.threads[t].pc = "idle"
    /\ proc' = [proc EXCEPT !.threads[t] =
                    [IdleThread EXCEPT !.pc = "scan", !.op = "update", !.it = 1,
                                       !.recipe_id = recipe_id,
                                       !.recipe_data = recipe_data]]
    /\ UNCHANGED <<files, mem, backend, recipes, db, now, nOps, last>>

ThreadDelete(t, recipe_id) ==
    /\ backend = "mock"
    /\ proc.threads[t].pc = "idle"
    /\ proc' = [proc EXCEPT !.threads[t] =
                    [IdleThread EXCEPT !.pc = "scan", !.op = "delete", !.it = 1,
                                       !.recipe_id = recipe_id]]
    /\ UNCHANGED <<files, mem, backend, recipes, db, now, nOps, last>>

ThreadScans(t) ==
    /\ proc.threads[t].pc = "scan"
    /\ proc' = [proc EXCEPT !.threads[t] = Thread_scan(@, recipes, proc.writes)]
    /\ UNCHANGED <<files, mem, backend, recipes, db, now, nOps, last>>

ThreadWrites(t) ==
    /\ proc.threads[t].pc = "write"
    /\ recipes' = Thread_write(proc.threads[t], recipes)
    /\ proc' = [proc EXCEPT !.threads[t] = Thread_after(@, recipes, proc.writes),
                            !.writes = IF proc.threads[t].i > Len(recipes)
                                       THEN @ ELSE @ + 1]
    /\ UNCHANGED <<files, mem, backend, db, now, nOps, last>>

ThreadDeletes(t) ==
    /\ proc.threads[t].pc = "del"
    /\ recipes' = Thread_del(proc.threads[t], recipes)
    /\ proc' = [proc EXCEPT !.threads[t] = Thread_after(@, recipes, proc.writes),
                            !.writes = IF proc.threads[t].i > Len(recipes)
                                       THEN @ ELSE @ + 1]
    /\ UNCHANGED <<files, mem, backend, db, now, nOps, last>>

NextThreads ==
    \/ \E t \in Threads, i \in ThreadIds, p \in ThreadPayloads : ThreadUpdate(t, i, p)
    \/ \E t \in Threads, i \in ThreadIds : ThreadDelete(t, i)
    \/ \E t \in Threads : ThreadScans(t)
    \/ \E t \in Threads : ThreadWrites(t)
    \/ \E t \in Threads : ThreadDeletes(t)

SpecThreads == Init /\ [][NextThreads]_vars

----------------------------------------------------------------------------
(***************************************************************************)
(* Requests to /api/create-user/.                                          *)
(***************************************************************************)
Usernames == {<< >>, <<"b">>, <<"B">>, <<"b", " ">>, <<"f", "i">>, <<"fi">>}
\* no "@", a last label of one character, and three a validator accepts
Emails ==
    {<< >>, <<"a">>, <<"a", "@", "b", ".", "b">>,
     <<"a", "@", "b", ".", "b", "b">>, <<"a", "@", "B", ".", "b", "b">>,
     <<"b", "@", "b", ".", "b", "b">>, DEMO_EMAIL}
PasswordLengths == {0, 7, 8}

HttpCreateUser(username, email, password) ==
    /\ backend = "db"
    /\ nOps < MaxOps
    /\ \E r \in {Endpoint_create_user(db, username, email, password)} :
           /\ db' = r.db
           /\ last' = [op |-> "create_user", username |-> username, email |-> email,
                       password |-> password, status |-> r.response.status,
                       body |-> r.response.body, fault |-> r.response.fault]
    /\ nOps' = nOps + 1
    /\ UNCHANGED <<files, proc, mem, backend, recipes, now>>

LoginNames == {<< >>, <<"b">>, DEMO_EMAIL}
LoginPasswords == {"", "x", DEMO_PASSWORD}

HttpLogin(username, password) ==
    /\ backend = "db"
    /\ nOps < MaxOps
    /\ \E r \in {Endpoint_login(db, username, password)} :
           /\ db' = r.db
           /\ last' = [op |-> "login", username |-> username, password |-> password,
                       status |-> r.response.status, body |-> r.response.body,
                       fault |-> r.response.fault]
    /\ nOps' = nOps + 1
    /\ UNCHANGED <<files, proc, mem, backend, recipes, now>>

NextUsers ==
    \/ \E u \in Usernames, e \in Emails, p \in PasswordLengths : HttpCreateUser(u, e, p)
    \/ \E u \in LoginNames, p \in LoginPasswords : HttpLogin(u, p)
    \/ \E t \in Ticks : Migrate(t)
    \/ \E a \in RestoreArgs, t \in Ticks : ListBackupsRestore(a, t)

SpecUsers == Init /\ [][NextUsers]_vars

----------------------------------------------------------------------------
(***************************************************************************)
(* One caller of _format_recipe: it formats a recipe the in-memory         *)
(* repository returned at both detail levels and then writes to the        *)
(* results.                                                                *)
(***************************************************************************)
FormatIds == {"1", "2", "3"}
FormatRoots == {"simple", "detailed"}

FormatBoth(recipe_id) ==
    /\ backend = "mock"
    /\ nOps < MaxCalls
    /\ LET r == Heap_get_by_id(mem, recipe_id)
           simple == Heap_format_recipe(r.mem.heap, The(r.ret), "simple")
           detailed == Heap_format_recipe(simple.heap, The(r.ret), "detailed")
       IN  /\ r.ret # None
           /\ simple.exc = None
           /\ mem' = [r.mem EXCEPT !.heap = detailed.heap, !.got = r.ret]
           /\ last' = [op |-> "format", recipe_id |-> recipe_id,
                       source |-> The(r.ret), simple |-> The(simple.ret),
                       detailed |-> The(detailed.ret),
                       given |-> DeepValue(r.mem.heap, The(r.ret))]
    /\ recipes' = StoreValue(mem')
    /\ nOps' = nOps + 1
    /\ UNCHANGED <<files, proc, backend, db, now>>

\* the caller writes to the object at address a, which it reaches from one of
\* the two results
FormatCallerWrites(root, a) ==
    /\ nOps < MaxCalls
    /\ last.op \in {"format", "format_writes"}
    /\ a \in Reach(mem.heap, last[root])
    /\ mem' = [mem EXCEPT !.heap = CallerWrites(@, a)]
    /\ last' = [op |-> "format_writes", root |-> root, addr |-> a,
                source |-> last.source, simple |-> last.simple,
                detailed |-> last.detailed, given |-> last.given]
    /\ recipes' = StoreValue(mem')
    /\ nOps' = nOps + 1
    /\ UNCHANGED <<files, proc, backend, db, now>>

NextFormat ==
    \/ \E i \in FormatIds : FormatBoth(i)
    \/ \E root \in FormatRoots, a \in 1..Len(mem.heap) : FormatCallerWrites(root, a)

SpecFormat == Init /\ [][NextFormat]_vars

----------------------------------------------------------------------------
(***************************************************************************)
(* Listing: what the claims call the stored recipes, a matching recipe and *)
(* a finished listing.                                                     *)
(***************************************************************************)
\* the stored recipes as get_by_id would return them, in the order get_list
\* lists them
StoredInListOrder ==
    IF backend = "mock" THEN recipes
    ELSE LET rows == SortNewestFirst(db.recipe)
         IN  [i \in 1..Len(rows) |-> Database_model_to_dict(db, rows[i])]

SearchHit(r, q) ==
    \/ Contains(lower(q), lower(r.title))
    \/ Contains(lower(q), lower(r.description))
    \/ \E i \in 1..Len(r.tags) : Contains(lower(q), lower(r.tags[i]))

\* the filter as C2 states it
MatchesAsClaimed(r, u, q) ==
    /\ u = None \/ r.userId = The(u)
    /\ q = None \/ SearchHit(r, The(q))

\* the filter with an empty owner string counted as no owner filter
Matches(r, u, q) ==
    /\ u = None \/ The(u) = "" \/ r.userId = The(u)
    /\ q = None \/ SearchHit(r, The(q))

MatchingStored(u, q) == SelectSeq(StoredInListOrder, LAMBDA r : Matches(r, u, q))

\* ceil(n / s) for n >= 0, s >= 1, by its definition
CeilDiv(n, s) == CHOOSE k \in 0..n : k * s >= n /\ (k - 1) * s < n

InListing == last.op = "get_list" /\ last.exc = None

\* the listing has gone through every page and one more
ListingDone == InListing /\ (last.page - 1) * last.page_size >= last.ret.total

RECURSIVE SumLen(_)
SumLen(ss) == IF ss = << >> THEN 0 ELSE Len(Head(ss)) + SumLen(Tail(ss))

SwapCaseChar(c) ==
    CASE c = "A" -> "a"
      [] c = "B" -> "b"
      [] c = "a" -> "A"
      [] c = "b" -> "B"
      [] OTHER -> c
SwapCase(q) == [i \in 1..Len(q) |-> SwapCaseChar(q[i])]

\* C1: once a caller has listed pages 1..ceil(N/s) of one listing (no write in
\* between), the pages' recipes, concatenated in page order, are the matching
\* stored recipes, each exactly once, and the pages' lengths sum to the total N
C1_PagesCoverFilteredOnce ==
    ListingDone =>
        LET N == last.ret.total
            k == CeilDiv(N, last.page_size)
            firstK == SubSeq(last.pages, 1, k)
        IN  /\ Len(last.pages) = k + 1
            /\ Concat(firstK) = MatchingStored(last.user_id, last.search)
            /\ SumLen(firstK) = N

\* a listing of three or more pages whose last page is not full and whose
\* filter left a stored recipe out
C1_Witness ==
    /\ ListingDone
    /\ Len(last.pages) >= 4
    /\ last.page_size = 2
    /\ Len(last.pages[Len(last.pages) - 1]) = 1
    /\ last.ret.total < Len(StoredInListOrder)

\* C2 as stated: over all its pages get_list returns exactly the stored recipes
\* whose owner equals the owner filter (when one is given) and whose title,
\* description or some tag contains the query, case-insensitively
C2_AsClaimed ==
    ListingDone =>
        Range(Concat(last.pages)) =
            {r \in Range(StoredInListOrder) :
                MatchesAsClaimed(r, last.user_id, last.search)}

\* C2, amended: the same with an empty owner string treated as no owner filter;
\* a query and its case-swapped form give the same matched recipes and total
C2_FilterSemantics ==
    ListingDone =>
        /\ Range(Concat(last.pages)) =
              {r \in Range(StoredInListOrder) : Matches(r, last.user_id, last.search)}
        /\ last.ret.total =
              Cardinality({i \in 1..Len(StoredInListOrder) :
                             Matches(StoredInListOrder[i], last.user_id, last.search)})
        /\ last.search # None =>
              LET other == Repo_get_list(backend, recipes, db, last.user_id,
                                         Some(SwapCase(The(last.search))), 1,
                                         Len(StoredInListOrder) + 1)
              IN  /\ other.total = last.ret.total
                  /\ other.items = Concat(last.pages)

\* an upper-case query and an empty owner string; a recipe is returned that
\* matches only through a tag, and a stored recipe is left out
C2_Witness ==
    /\ ListingDone
    /\ last.user_id = Some("")
    /\ last.search = Some(<<"A", "B">>)
    /\ \E r \in Range(Concat(last.pages)) :
            /\ ~Contains(<<"a", "b">>, lower(r.title))
            /\ ~Contains(<<"a", "b">>, lower(r.description))
    /\ \E r \in Range(StoredInListOrder) : r \notin Range(Concat(last.pages))

\* C3: every page of a listing reports the same total, the number of stored
\* recipes that match, whatever the page and the page size; a page past the
\* last one is empty, with that total and without an error
C3_TotalIsFilteredSize ==
    last.op = "get_list" =>
        /\ last.exc = None
        /\ \A i \in 1..Len(last.totals) :
              last.totals[i] = Len(MatchingStored(last.user_id, last.search))
        /\ (last.page - 1) * last.page_size >= last.ret.total => last.ret.items = << >>

\* a page past the last page of a listing that has two stored matches or more
C3_Witness ==
    /\ ListingDone
    /\ last.ret.total >= 2
    /\ last.ret.total < Len(StoredInListOrder)
    /\ last.page >= 2
    /\ last.ret.items = << >>

ServiceReturned == last.op = "service.get_list" /\ last.exc = None

\* C4: for page_size >= 1 the pagination block has total_pages = ceil(N/s) when
\* N > 0 and 0 when N = 0, and carries page, page_size and the repository's
\* total as they are
C4_TotalPages ==
    (ServiceReturned /\ last.page_size >= 1) =>
        LET pg == The(last.ret).pagination
            N == Repo_get_list(backend, recipes, db, last.user_id, last.search,
                               last.page, last.page_size).total
        IN  /\ pg.total = N
            /\ pg.page = last.page
            /\ pg.page_size = last.page_size
            /\ pg.total_pages = IF N > 0 THEN CeilDiv(N, last.page_size) ELSE 0

\* a total that the page size does not divide, on more than one page
C4_Witness ==
    /\ ServiceReturned
    /\ The(last.ret).pagination.total = 5
    /\ last.page_size = 2
    /\ The(last.ret).pagination.total_pages = 3

\* C5 as stated: has_previous is false iff page <= 1, has_next is false iff
\* page >= total_pages, and with a total of 0 both are false and total_pages is 0
C5_AsClaimed ==
    (ServiceReturned /\ last.page >= 1 /\ last.page_size >= 1) =>
        LET pg == The(last.ret).pagination
        IN  /\ (pg.has_previous = FALSE) <=> (last.page <= 1)
            /\ (pg.has_next = FALSE) <=> (last.page >= pg.total_pages)
            /\ pg.total = 0 =>
                  /\ pg.has_next = FALSE
                  /\ pg.has_previous = FALSE
                  /\ pg.total_pages = 0

\* C5, amended: with a total of 0, total_pages is 0 and has_next is false;
\* has_previous is false iff page <= 1 there as everywhere
C5_NextPrevious ==
    (ServiceReturned /\ last.page >= 1 /\ last.page_size >= 1) =>
        LET pg == The(last.ret).pagination
        IN  /\ (pg.has_previous = FALSE) <=> (last.page <= 1)
            /\ (pg.has_next = FALSE) <=> (last.page >= pg.total_pages)
            /\ pg.total = 0 => (pg.has_next = FALSE /\ pg.total_pages = 0)

\* the last page of a listing of several pages: a previous page and no next one
C5_Witness ==
    /\ ServiceReturned
    /\ The(last.ret).pagination.total_pages >= 2
    /\ last.page = The(last.ret).pagination.total_pages
    /\ The(last.ret).pagination.has_previous
    /\ ~The(last.ret).pagination.has_next

----------------------------------------------------------------------------
(***************************************************************************)
(* Create, update, delete.                                                 *)
(***************************************************************************)
StoredIds ==
    IF backend = "mock" THEN [i \in 1..Len(recipes) |-> recipes[i].id]
    ELSE [i \in 1..Len(db.recipe) |-> db.recipe[i].id]

\* C6: no two stored recipes have the same id
C6_UniqueIds ==
    \A i, j \in 1..Len(StoredIds) : i # j => StoredIds[i] # StoredIds[j]

Created == last.op = "create" /\ last.exc = None /\ last.ret # None

\* C9: after create(recipe), get_by_id(returned id) gives the input back in
\* every field but the id, and the timestamps the input left out
C9_CreateRoundTrip ==
    Created =>
        LET got == Repo_get_by_id(backend, recipes, db, The(last.ret).id)
            assigned == {"id"} \cup ({"createdAt", "updatedAt"} \ DOMAIN last.recipe)
        IN  /\ got # None
            /\ \A k \in (DOMAIN last.recipe) \ assigned :
                  k \in DOMAIN The(got) /\ The(got)[k] = last.recipe[k]

\* the step is an update of a stored recipe that returned it
UpdateStep ==
    /\ last'.op = "update"
    /\ nOps' = nOps + 1
    /\ last'.exc = None
    /\ last'.ret # None

\* C10: an update leaves every field its payload omits as get_by_id showed it
\* before the update
C10_UpdateKeepsOmitted ==
    [][UpdateStep =>
        LET before == Repo_get_by_id(backend, recipes, db, last'.recipe_id)
            after == Repo_get_by_id(backend', recipes', db', last'.recipe_id)
        IN  /\ before # None
            /\ after # None
            /\ \A k \in (DOMAIN The(before)) \ (DOMAIN last'.recipe_data) :
                  The(after)[k] = The(before)[k]]_vars

----------------------------------------------------------------------------
(***************************************************************************)
(* References across the repository boundary.                              *)
(***************************************************************************)
ReadStep == last'.op \in {"get_list", "get_by_id"}
WriteThrough(root) == last'.op = "caller_writes" /\ last'.root = root

\* C7: get_list and get_by_id leave the stored recipes as they are, and so does
\* a write of the caller to a recipe they returned, or to a list or dict in it
C7_ReadsAreCopies ==
    [][(ReadStep \/ WriteThrough("got")) => StoreValue(mem') = StoreValue(mem)]_vars

\* the caller has written to a list or dict inside a recipe it was returned,
\* and the write changed that object
C7_Witness ==
    /\ last.op = "caller_writes"
    /\ last.root = "got"
    /\ last.addr # The(mem.got)
    /\ DeepValue(mem.heap, last.addr) # last.was

\* C8: a write of the caller to the dict it passed to create or update, or to a
\* list or dict in it, leaves the stored recipes as they are
C8_ArgumentsAreCopied ==
    [][WriteThrough("sent") => StoreValue(mem') = StoreValue(mem)]_vars

----------------------------------------------------------------------------
(***************************************************************************)
(* Collections in an update payload.                                       *)
(***************************************************************************)
CollectionKeys == {"ingredients", "steps", "tags"}

\* the stored collection is the payload's, whatever ids the backend gave its
\* elements
SameCollection(k, stored, given) ==
    CASE k = "tags" -> Range(stored) = Range(given)
      [] k = "ingredients" ->
            /\ Len(stored) = Len(given)
            /\ \A i \in 1..Len(given) :
                  /\ stored[i].name = given[i].name
                  /\ stored[i].amount = given[i].amount
                  /\ stored[i].unit = given[i].unit
      [] k = "steps" ->
            /\ Len(stored) = Len(given)
            /\ \A i \in 1..Len(given) :
                  stored[i].instructions = given[i].instructions

\* the step is an update of a stored recipe whose payload holds a collection
CollectionUpdateStep ==
    /\ last'.op = "update"
    /\ nOps' = nOps + 1
    /\ Repo_get_by_id(backend, recipes, db, last'.recipe_id) # None
    /\ (DOMAIN last'.recipe_data) \cap CollectionKeys # {}

\* C11: an update with ingredients, steps or tags in its payload succeeds,
\* replaces the collections the payload holds by the payload's and leaves the
\* other collections as they were
C11_CollectionsReplaced ==
    [][CollectionUpdateStep =>
        /\ last'.exc = None
        /\ last'.ret # None
        /\ LET before == The(Repo_get_by_id(backend, recipes, db, last'.recipe_id))
               after == The(Repo_get_by_id(backend', recipes', db', last'.recipe_id))
           IN  \A k \in CollectionKeys :
                  IF k \in DOMAIN last'.recipe_data
                  THEN SameCollection(k, after[k], last'.recipe_data[k])
                  ELSE after[k] = before[k]]_vars

----------------------------------------------------------------------------
(***************************************************************************)
(* Ids the store does not hold.                                            *)
(***************************************************************************)
IdStored(recipe_id) == \E i \in 1..Len(StoredIds) : StoredIds[i] = recipe_id

\* the step is a get_by_id, update or delete of an id no stored recipe has
UnknownIdStep ==
    /\ last'.op \in {"get_by_id", "update", "delete"}
    /\ ~IdStored(last'.recipe_id)

\* C12: get_by_id, update and delete of an id the store does not hold return
\* absent, absent and false, raise nothing and leave the store as it was
C12_UnknownIdIsAbsent ==
    [][UnknownIdStep =>
        /\ last'.exc = None
        /\ IF last'.op = "delete" THEN last'.ret = FALSE ELSE last'.ret = None
        /\ recipes' = recipes
        /\ db' = db]_vars

\* an update in a store that holds recipes, of an id that is not a number and
\* that none of them has, on the relational store
C12_Witness ==
    /\ last.op = "update"
    /\ last.recipe_id = "x"
    /\ backend = "db"
    /\ Len(StoredIds) > 0
    /\ ~IdStored(last.recipe_id)
    /\ last.ret = None

----------------------------------------------------------------------------
(***************************************************************************)
(* Delete.                                                                 *)
(***************************************************************************)
\* the stored recipes as get_by_id shows them, in storage order
StoredRecipes(be, rs, d) ==
    IF be = "mock" THEN rs
    ELSE [i \in 1..Len(d.recipe) |-> Database_model_to_dict(d, d.recipe[i])]

\* C13: delete returns true exactly when a stored recipe had the id; it then
\* removes one recipe with that id and leaves the others as they were, and
\* otherwise leaves the store as it was
C13_DeleteRemovesOne ==
    [][last'.op = "delete" =>
        LET before == StoredRecipes(backend, recipes, db)
            after == StoredRecipes(backend', recipes', db')
        IN  /\ last'.exc = None
            /\ last'.ret = IdStored(last'.recipe_id)
            /\ IF last'.ret
               THEN \E i \in 1..Len(before) :
                        /\ before[i].id = last'.recipe_id
                        /\ after = RemoveAt(before, i)
               ELSE after = before /\ recipes' = recipes /\ db' = db]_vars

\* a delete that removed a recipe and left another one with the same id
C13_Witness ==
    /\ last.op = "delete"
    /\ last.ret = TRUE
    /\ IdStored(last.recipe_id)

----------------------------------------------------------------------------
(***************************************************************************)
(* Validation and status codes.                                            *)
(***************************************************************************)
InvalidListArguments ==
    \/ last.page < 1
    \/ last.page_size < 1
    \/ last.detail_level \notin DetailLevels

\* C14: RecipesService.get_list called with page < 1, page_size < 1 or a
\* detail_level other than simple and detailed signals a ValidationError and
\* does not call the repository
C14_ServiceValidates ==
    (last.op = "service.get_list" /\ InvalidListArguments) =>
        /\ last.exc = Some("ValidationError")
        /\ last.repo_calls = 0

\* the request fails validation: a page or page_size that is no integer or is
\* below 1, a detail_level other than simple and detailed, a body without a
\* required field
ValidationFailure(req) ==
    CASE req.method = "GET" /\ req.route = "list" ->
            \/ req.page # None /\ (~IsIntText(The(req.page)) \/ IntOf(The(req.page)) < 1)
            \/ req.page_size # None
                /\ (~IsIntText(The(req.page_size)) \/ IntOf(The(req.page_size)) < 1)
            \/ req.detail_level # None /\ The(req.detail_level) \notin DetailLevels
      [] req.method = "GET" /\ req.route = "detail" ->
            req.detail_level # None /\ The(req.detail_level) \notin DetailLevels
      [] req.method = "POST" -> ~(RequiredFields \subseteq DOMAIN req.data)
      [] OTHER -> FALSE

\* the handler caught an exception that no parameter of the request explains
Faulted(req) == req.fault # None /\ ~ValidationFailure(req)

\* C15: a request is answered 400 exactly when it fails validation; a valid
\* GET, PUT or DELETE of /recipes/<id> for an id the store does not hold is
\* answered 404; an exception inside the service or repository is answered 500
C15_StatusClasses ==
    [][last'.op = "http" =>
        /\ (last'.status = 400) = ValidationFailure(last')
        /\ (/\ last'.route = "detail"
            /\ ~ValidationFailure(last')
            /\ ~HasPk(db.recipe, last'.recipe_id)) => last'.status = 404
        /\ Faulted(last') => last'.status = 500]_vars

\* a request that was answered 500 after an exception in the repository, in a
\* store that holds a recipe
C15_Witness ==
    /\ last.op = "http"
    /\ last.status = 500
    /\ last.fault # None
    /\ Len(db.recipe) > 0

\* a create or update request that was answered with an error
FailedWrite(req) ==
    /\ req.op = "http"
    /\ req.method \in {"POST", "PUT"}
    /\ req.status >= 400

\* C16: a create or update request that fails with an error leaves every
\* table as it was before the request: no recipe, ingredient, step or tag
\* link it wrote remains
C16_FailedWriteLeavesStore ==
    [][FailedWrite(last') => db' = db]_vars

\* the value of what the caller holds under name: the source or a result
Held(m, req, name) == DeepValue(m.heap, req[name])

\* C17: formatting leaves the source recipe as it was given, and a write to
\* one of the two results (to the result itself or to a list or dict nested in
\* it) changes neither the other result nor the source
C17_FormatResultsIndependent ==
    [][/\ last'.op = "format" => Held(mem', last', "source") = last'.given
       /\ last'.op = "format_writes" =>
             \A name \in {"source", "simple", "detailed"} \ {last'.root} :
                 Held(mem', last', name) = Held(mem, last', name)]_vars

\* the service was asked for a page of recipes at the given detail level
Listed(detail_level) ==
    /\ last.op = "service.get_list"
    /\ ~InvalidListArguments
    /\ last.detail_level = detail_level

\* C18: whatever recipes the repository holds, listing them at 'simple'
\* succeeds and gives every recipe exactly the keys id, userId, title,
\* description, imageUrl and tags, and listing them at 'detailed' gives every
\* recipe the keys ingredients and steps
C18_ProjectionKeys ==
    /\ Listed("simple") =>
          /\ last.exc = None
          /\ \A i \in 1..Len(The(last.ret).recipes) :
                DOMAIN The(last.ret).recipes[i] = SimpleKeys
    /\ Listed("detailed") =>
          /\ last.exc = None
          /\ \A i \in 1..Len(The(last.ret).recipes) :
                {"ingredients", "steps"} \subseteq DOMAIN The(last.ret).recipes[i]

----------------------------------------------------------------------------
(***************************************************************************)
(* The two repositories compared.                                          *)
(***************************************************************************)
\* a recipe as the caller can recognise it on either repository, whatever id
\* the repository gave it
Logical(recipe) == [title |-> recipe.title, userId |-> recipe.userId]

LogicalPage(items) == [i \in 1..Len(items) |-> Logical(items[i])]

\* the page holds everything that matched
WholeResult(ret) == Len(ret.items) = ret.total

\* C19: with the same recipes handed to both repositories, get_list with the
\* same owner and search finds the same total on both, and where one page
\* holds everything that matched, the same recipes
C19_SameMatchedSet ==
    last.op = "both.get_list" =>
        /\ last.mock.total = last.db.total
        /\ (last.page = 1 /\ WholeResult(last.mock) /\ WholeResult(last.db)) =>
              Range(LogicalPage(last.mock.items)) = Range(LogicalPage(last.db.items))

\* C20: with the same recipes handed to both repositories in the same order,
\* get_list with the same owner, search, page and page_size returns the same
\* recipes in the same order on both
C20_SamePages ==
    last.op = "both.get_list" =>
        LogicalPage(last.mock.items) = LogicalPage(last.db.items)

----------------------------------------------------------------------------
(***************************************************************************)
(* Ids the relational store assigns.                                       *)
(***************************************************************************)
\* the step is a create on the relational repository
DatabaseCreateStep == backend = "db" /\ last'.op = "create"

\* C21: every create on the relational repository succeeds and returns a
\* recipe whose id no recipe stored before the call has, whatever id the
\* input carries
C21_StoreAssignsFreshId ==
    [][DatabaseCreateStep =>
        /\ last'.exc = None
        /\ last'.ret # None
        /\ ~HasPk(db.recipe, The(last'.ret).id)]_vars

----------------------------------------------------------------------------
(***************************************************************************)
(* Concurrent calls on the in-memory repository.                           *)
(***************************************************************************)
\* both threads have returned from an update of the same recipe, u wrote after
\* t, and u had found the recipe before t wrote
Overwrote(t, u) ==
    LET a == proc.threads[t]
        b == proc.threads[u]
    IN  /\ a.pc = "done" /\ b.pc = "done"
        /\ a.op = "update" /\ b.op = "update"
        /\ a.recipe_id = b.recipe_id
        /\ a.wrote_at > 0
        /\ b.wrote_at > a.wrote_at
        /\ b.read_at < a.wrote_at

\* the keys only the call of thread t set
OnlySetBy(t, u) ==
    (DOMAIN proc.threads[t].recipe_data) \ (DOMAIN proc.threads[u].recipe_data)

\* C22: when two updates of one recipe interleave so that the second writer
\* had read the record before the first wrote, the stored record is the second
\* writer's copy: under every key only the first call set it holds the value
\* from before both calls
C22_SecondWriterOverwrites ==
    \A t, u \in Threads :
        (t # u /\ Overwrote(t, u)) =>
            /\ recipes[proc.threads[u].i] = The(proc.threads[u].updated_recipe)
            /\ \A k \in OnlySetBy(t, u) :
                  recipes[proc.threads[u].i][k] = The(proc.threads[u].recipe)[k]

\* both updates returned a recipe, and a change of the first is not stored
C22_Witness ==
    \E t, u \in Threads :
        /\ t # u
        /\ Overwrote(t, u)
        /\ proc.threads[t].ret # None
        /\ proc.threads[u].ret # None
        /\ \E k \in OnlySetBy(t, u) :
              recipes[proc.threads[u].i][k] # proc.threads[t].recipe_data[k]

----------------------------------------------------------------------------
(***************************************************************************)
(* User accounts.                                                          *)
(***************************************************************************)
\* no two rows of the user table agree in the field
UniqueIn(d, field) ==
    \A i, j \in 1..Len(d.auth_user) :
        i # j => d.auth_user[i][field] # d.auth_user[j][field]

\* the request names a username or an email a user already has
AlreadyRegistered(d, req) ==
    \/ UserExists(d, "username", Strip(req.username))
    \/ UserExists(d, "email", Strip(req.email))

\* C23: after every create-user request no two users have the same username
\* and no two users have the same email, and a request whose username or email
\* a user already has is answered 400 and creates no user
C23_UniqueUsers ==
    [][/\ last'.op \in {"create_user", "login"} =>
            /\ UniqueIn(db', "username")
            /\ UniqueIn(db', "email")
       /\ last'.op = "create_user" /\ AlreadyRegistered(db, last') =>
            (last'.status = 400 /\ db' = db)]_vars

----------------------------------------------------------------------------
(***************************************************************************)
(* Steps, their ingredients, and tags.                                     *)
(***************************************************************************)
\* what the last call handed to the repository, and the id it addressed
Payload(req) == IF req.op = "create" THEN req.recipe ELSE req.recipe_data

Addressed(req) ==
    IF req.op = "update" THEN req.recipe_id
    ELSE IF backend = "db" THEN DefaultPk
    ELSE req.recipe.id

Instructions(steps) == [i \in 1..Len(steps) |-> steps[i].instructions]

\* the step is a create of a recipe with a new id, or an update of a stored
\* recipe, and its payload has the key
WritesKey(key) ==
    /\ last'.op \in {"create", "update"}
    /\ nOps' = nOps + 1
    /\ key \in DOMAIN Payload(last')
    /\ IF last'.op = "update" THEN IdStored(last'.recipe_id)
       ELSE backend = "db" \/ ~IdStored(last'.recipe.id)

\* the ordinals of the step rows of a recipe, in the order get_by_id reads them
StoredOrdinals(d, rid) ==
    LET rows == SelectSeq(d.step, LAMBDA row : row.recipe = rid)
    IN  [i \in 1..Len(rows) |-> rows[i].order]

\* C24: after a create, or an update whose payload has steps, get_by_id
\* returns the payload's steps in the payload's order, and the relational
\* store holds the ordinals 1..n for them
C24_StepsInPayloadOrder ==
    [][WritesKey("steps") =>
        LET got == Repo_get_by_id(backend', recipes', db', Addressed(last'))
            steps == Payload(last').steps
        IN  /\ got # None
            /\ Instructions(The(got).steps) = Instructions(steps)
            /\ backend = "db" =>
                  StoredOrdinals(db', LookupKey(Addressed(last'))) =
                      [i \in 1..Len(steps) |-> i]]_vars

----------------------------------------------------------------------------
(***************************************************************************)
(* Ingredient references of steps.                                         *)
(***************************************************************************)
\* every ingredient id a step of the recipe lists is the id of one of the
\* recipe's ingredients
ReferencesOwnIngredients(recipe) ==
    \A i \in 1..Len(recipe.steps) :
        \A k \in 1..Len(recipe.steps[i].ingredients) :
            \E j \in 1..Len(recipe.ingredients) :
                recipe.ingredients[j].id = recipe.steps[i].ingredients[k]

\* every link row joins a step row and an ingredient row of one recipe
LinksWithinRecipe(d) ==
    \A l \in d.step_ingredient :
        \E s \in Range(d.step) : \E g \in Range(d.ingredient) :
            s.id = l[1] /\ g.id = l[2] /\ s.recipe = g.recipe

\* C25: on the relational store, after every create, update and delete, every
\* ingredient id listed in a step of a stored recipe is the id of an
\* ingredient of the same recipe; the in-memory store keeps the step lists of
\* a payload as given, whatever ids they list
C25_StepsReferenceOwnIngredients ==
    [][/\ backend = "db" =>
            /\ LinksWithinRecipe(db')
            /\ \A i \in 1..Len(db'.recipe) :
                  ReferencesOwnIngredients(Database_model_to_dict(db', db'.recipe[i]))
       /\ backend = "mock" /\ WritesKey("steps") =>
            LET got == Mocked_get_by_id(recipes', Addressed(last'))
            IN  got # None /\ The(got).steps = Payload(last').steps]_vars

\* the relational store holds a recipe with a step that lists an ingredient
C25_Witness ==
    /\ backend = "db"
    /\ last.op \in {"create", "update", "delete"}
    /\ \E i \in 1..Len(db.recipe) :
          LET recipe == Database_model_to_dict(db, db.recipe[i])
          IN  \E k \in 1..Len(recipe.steps) : recipe.steps[k].ingredients # << >>

----------------------------------------------------------------------------
(***************************************************************************)
(* Tags named twice.                                                       *)
(***************************************************************************)
NoDuplicates(seq) == \A i, j \in 1..Len(seq) : seq[i] = seq[j] => i = j

\* the step is a create or update that returned a recipe and whose payload has
\* tags
TaggedWrite ==
    /\ last'.op \in {"create", "update"}
    /\ nOps' = nOps + 1
    /\ "tags" \in DOMAIN Payload(last')
    /\ last'.exc = None
    /\ last'.ret # None

\* C26: a create or update whose tag list names a tag more than once stores
\* the tag once for the recipe on the relational store (one tag row per name,
\* one link row per recipe and tag); the in-memory store keeps and returns
\* the tag list as given, duplicates included
C26_TagsStoredOnce ==
    [][TaggedWrite =>
        LET tags == Payload(last').tags
            got == The(last'.ret)
        IN  /\ backend = "db" =>
                /\ NoDuplicates(got.tags)
                /\ Range(got.tags) = Range(tags)
                /\ Database_get_by_id(db', got.id) = Some(got)
                /\ NoDuplicates(db'.tag)
                /\ NoDuplicates(db'.recipe_tag)
            /\ backend = "mock" =>
                /\ got.tags = tags
                /\ \E i \in 1..Len(recipes') : recipes'[i] = got]_vars

\* an update on the relational store whose payload names a tag twice has
\* returned the recipe
C26_Witness ==
    /\ backend = "db"
    /\ last.op = "update"
    /\ last.exc = None
    /\ last.ret # None
    /\ "tags" \in DOMAIN last.recipe_data
    /\ ~NoDuplicates(last.recipe_data.tags)
    /\ Len(The(last.ret).tags) < Len(last.recipe_data.tags)

----------------------------------------------------------------------------
(***************************************************************************)
(* The ingredient a step's reference is resolved to.                       *)
(***************************************************************************)
\* the step is a create, or an update of a stored recipe, on the relational
\* store, with ingredients and steps in the payload
WritesStepsAndIngredients ==
    /\ backend = "db"
    /\ WritesKey("steps")
    /\ "ingredients" \in DOMAIN Payload(last')

\* the step row with the ordinal is linked to a row created from ing_data
LinkedTo(d, rid, ordinal, ing_data) ==
    \E s \in Range(d.step) : \E g \in Range(d.ingredient) :
        /\ s.recipe = rid /\ s.order = ordinal
        /\ g.recipe = rid /\ g.name = ing_data.name
        /\ <<s.id, g.id>> \in d.step_ingredient

\* C27: after a create or update on the relational store, a step that lists
\* the id of an ingredient of the payload is linked to the ingredient row
\* created from that ingredient
C27_ReferenceResolvedToItsIngredient ==
    [][WritesStepsAndIngredients =>
        LET steps == Payload(last').steps
            ings == Payload(last').ingredients
            rid == LookupKey(Addressed(last'))
        IN  \A i \in 1..Len(steps) : \A j \in 1..Len(ings) :
                ings[j].id \in Range(steps[i].ingredients) =>
                    LinkedTo(db', rid, i, ings[j])]_vars

----------------------------------------------------------------------------
(***************************************************************************)
(* A concurrent update and delete of two recipes.                          *)
(***************************************************************************)
\* thread t runs or has run update(a), thread u delete(b), and a # b
UpdateBesideDelete(t, u) ==
    /\ proc.threads[t].op = "update"
    /\ proc.threads[u].op = "delete"
    /\ proc.threads[t].recipe_id # proc.threads[u].recipe_id

\* C28: under every interleaving of an update(a) and a delete(b) with a # b,
\* every stored recipe other than a and b stays stored as it was, update
\* raises no IndexError, and the position update found is the position of
\* recipe a when update writes
C28_UpdateBesideDeleteKeepsOthers ==
    \A t, u \in Threads :
        (t # u /\ UpdateBesideDelete(t, u)) =>
            /\ \A k \in 1..Len(mock_recipes) :
                  mock_recipes[k].id \notin
                        {proc.threads[t].recipe_id, proc.threads[u].recipe_id} =>
                      \E i \in 1..Len(recipes) : recipes[i] = mock_recipes[k]
            /\ proc.threads[t].exc # Some("IndexError")
            /\ proc.threads[t].pc = "write" =>
                  /\ proc.threads[t].i <= Len(recipes)
                  /\ recipes[proc.threads[t].i].id = proc.threads[t].recipe_id

----------------------------------------------------------------------------
(***************************************************************************)
(* The owner of a stored recipe.                                           *)
(***************************************************************************)
\* the step is a POST that was answered 201
Posted == last'.op = "http" /\ last'.method = "POST" /\ last'.status = 201

\* the step is a PUT
Put == last'.op = "http" /\ last'.method = "PUT"

\* every recipe row of d that e still has keeps its userId
OwnersKept(d, e) ==
    \A i \in 1..Len(d.recipe) : \A j \in 1..Len(e.recipe) :
        d.recipe[i].id = e.recipe[j].id => d.recipe[i].userId = e.recipe[j].userId

\* C29: through the recipes endpoints, every stored recipe has the userId of
\* the authenticated user whose POST wrote it: a POST stores the recipe under
\* that id whatever userId the body carries, and a PUT, whatever its body,
\* changes the userId of no stored recipe
C29_OwnerIsCreator ==
    [][last'.op = "http" =>
        /\ \A i \in 1..Len(db'.recipe) : db'.recipe[i].userId = RequestUser
        /\ Posted =>
              /\ last'.body.userId = RequestUser
              /\ Database_get_by_id(db', last'.body.id) = Some(last'.body)
        /\ Put => OwnersKept(db, db')]_vars

\* a PUT whose body names another owner was made of a store that holds a
\* recipe posted with a body that named another owner, too
C29_Witness ==
    /\ last.op = "http"
    /\ last.method = "PUT"
    /\ "userId" \in DOMAIN last.data
    /\ \E i \in 1..Len(db.recipe) :
          /\ db.recipe[i].userId = RequestUser
          /\ db.recipe[i].userId # last.data.userId
          /\ db.recipe[i].title = NewA.title
          /\ NewA.userId # RequestUser

----------------------------------------------------------------------------
(***************************************************************************)
(* The store of the in-memory repository's instances.                      *)
(***************************************************************************)
\* what get_list (first page, default size) and get_by_id of the instance show
ShownBy(p, module_list, inst) ==
    [list |-> Mocked_get_list(StoreOf(p, module_list, inst), None, None, 1, 10),
     byId |-> [i \in InstanceRecipeIds |->
                  Mocked_get_by_id(StoreOf(p, module_list, inst), i)]]

\* C30: what a create, update or delete through one instance leaves is what
\* get_list and get_by_id of every instance show, a read returns what the
\* last write left whichever instances wrote and read, and a new instance
\* shows what the instances before it show, not the seed data again
C30_InstancesShareStore ==
    [][/\ last'.op \in {"create", "update", "delete", "get_by_id", "get_list"} =>
            \A k \in 1..Len(proc'.instances) :
                ShownBy(proc', recipes', k) = ShownBy(proc', recipes', last'.inst)
       /\ last'.op = "get_by_id" =>
            last'.ret = Mocked_get_by_id(recipes, last'.recipe_id)
       /\ last'.op = "get_list" =>
            last'.total = Len(recipes)
       /\ last'.op = "__init__" =>
            /\ recipes' = recipes
            /\ \A k \in 1..Len(proc'.instances) :
                  ShownBy(proc', recipes', k) = ShownBy(proc, recipes, 1)]_vars

\* a recipe created through one instance is read through another instance,
\* built after the first
C30_Witness ==
    /\ last.op = "get_by_id"
    /\ last.inst > 1
    /\ last.recipe_id = "4"
    /\ last.ret = Some(NewA)
    /\ proc.instances[last.inst] = ModuleList
    /\ recipes # mock_recipes

====
